---- MODULE Spec2Model ----
(***************************************************************************)
(* A model of the output parsers of python-vagrant (vagrant/__init__.py).  *)
(*                                                                         *)
(* A Python str is a sequence of one-character strings.  A call that       *)
(* raises is a record [exc |-> <exception class>, value |-> <<>>]; a call  *)
(* that returns v is [exc |-> "none", value |-> v].  Python's None is the  *)
(* value None below, which is no sequence of characters.  Python indexes   *)
(* from 0 and sequences here from 1: x[2] in the source is x[3] here.      *)
(***************************************************************************)
EXTENDS Naturals, Sequences, FiniteSets

VARIABLES
    output,   \* the text handed to the parser (the parameter of _parse_*)
    called,   \* "none" before the call, then the name of the parser called
    parsed,   \* what _parse_machine_readable_output gave during the call
    result,   \* what the call returned or raised
    _cached_conf,  \* Vagrant._cached_conf: vm_name -> NoConf or Conf(dict)
    _vagrant_exe,  \* Vagrant._vagrant_exe: None or the executable's path
    on_path,       \* whether which('vagrant') finds an executable
    op,            \* the last call of a method of the Vagrant object
    launched,      \* the subprocesses that call launched, in order
    ret,           \* what that call returned or raised
    before,        \* _cached_conf as it was when that call began
    vms,           \* the machines of the Vagrantfile: [name, state], in order
    vagrant_boxes, \* VagrantTestCase.vagrant_boxes, the attribute of the class
    restart_boxes, \* VagrantTestCase.restart_boxes
    instances,     \* the test cases constructed: [vagrant_boxes, vagrant]
    __initial_box_statuses,  \* the dict of the class: box name -> state
    stage,         \* the method of the test case that ran last
    events,        \* the commands launched since the run began, with the
                   \* method that launched each
    tests_run,     \* the number of test cases whose run has ended
    tc_ret,        \* what the method that ran last returned or raised
    body           \* what the test method of the run did

parser_vars == <<output, called, parsed, result>>

vagrant_vars ==
    <<_cached_conf, _vagrant_exe, on_path, op, launched, ret, before>>

testcase_vars ==
    <<vms, vagrant_boxes, restart_boxes, instances, __initial_box_statuses,
      stage, events, tests_run, tc_ret, body>>

vars == <<parser_vars, vagrant_vars, testcase_vars>>

(***************************************************************************)
(* Values                                                                  *)
(***************************************************************************)
None == <<"<None>">>

Ok(v) == [exc |-> "none", value |-> v]

Raise(e) == [exc |-> e, value |-> <<>>]

\* raise e(message): the value of the exception is its message.
RaiseWith(e, message) == [exc |-> e, value |-> message]

\* Python's True and False as the value of an argument that may be None.
True == <<"<True>">>

False == <<"<False>">>

Status(name, state, provider) ==
    [name |-> name, state |-> state, provider |-> provider]

Box(name, provider, version) ==
    [name |-> name, provider |-> provider, version |-> version]

Plugin(name, version, system) ==
    [name |-> name, version |-> version, system |-> system]

(***************************************************************************)
(* String literals of the source                                           *)
(***************************************************************************)
ENCODED_COMMA ==
    <<"%", "!", "(", "V", "A", "G", "R", "A", "N", "T", "_",
      "C", "O", "M", "M", "A", ")">>

K_metadata == <<"m", "e", "t", "a", "d", "a", "t", "a">>

K_ui == <<"u", "i">>

K_action == <<"a", "c", "t", "i", "o", "n">>

K_state == <<"s", "t", "a", "t", "e">>

K_provider_name ==
    <<"p", "r", "o", "v", "i", "d", "e", "r", "-", "n", "a", "m", "e">>

K_box_name == <<"b", "o", "x", "-", "n", "a", "m", "e">>

K_box_provider == <<"b", "o", "x", "-", "p", "r", "o", "v", "i", "d", "e", "r">>

K_box_version == <<"b", "o", "x", "-", "v", "e", "r", "s", "i", "o", "n">>

K_plugin_name == <<"p", "l", "u", "g", "i", "n", "-", "n", "a", "m", "e">>

K_plugin_version ==
    <<"p", "l", "u", "g", "i", "n", "-", "v", "e", "r", "s", "i", "o", "n">>

S_system == <<"s", "y", "s", "t", "e", "m">>

S_Host == <<"H", "o", "s", "t", " ">>

\* IgnoredKinds without "action".
IgnoredKinds_no_action == {K_metadata, K_ui}

\* The kinds _parse_machine_readable_output filters out.
IgnoredKinds == {K_metadata, K_ui, K_action}

\* The maxsplit argument of line.split(',', 4).
MaxSplit == 4

(***************************************************************************)
(* Python's str methods                                                    *)
(***************************************************************************)
(* A character is a string: the character itself when a string of TLA+ can *)
(* hold it, and otherwise "U+" and its code point in hexadecimal digits     *)
(* ("U+2028").  The characters written by their code point are the         *)
(* backtick, those from U+0100 on whose code point has a low byte under    *)
(* 0x80, and those beyond U+FFFF.  The control characters and spaces of    *)
(* the first 256 that have no escape in a string are named here.           *)
\* chr(0x0b), the vertical tab
VT == ""

\* chr(0x1c), the file separator
FS == ""

\* chr(0x1d), the group separator
GS == ""

\* chr(0x1e), the record separator
RS == ""

\* chr(0x1f), the unit separator
US == ""

\* chr(0x85), the next line control
NEL == ""

\* chr(0xa0), the no-break space
NBSP == " "

\* The characters str.strip() and str.split(None) take for whitespace:
\* those c with c.isspace().
Whitespace ==
    {"\t", "\n", VT, "\f", "\r", FS, GS, RS, US, " ", NEL, NBSP, " ",
     "U+2000", "U+2001", "U+2002", "U+2003", "U+2004", "U+2005", "U+2006",
     "U+2007", "U+2008", "U+2009", "U+200A", "U+2028", "U+2029", "U+202F",
     "U+205F", "U+3000"}

\* The characters str.splitlines() breaks a line at ("\r\n" is one break).
LineBoundaries ==
    {"\n", VT, "\f", "\r", FS, GS, RS, NEL, "U+2028", "U+2029"}

\* The least index i >= from of s with s[i] in chars; 0 when there is none.
find_in(s, chars, from) ==
    LET I == {i \in from..Len(s) : s[i] \in chars}
    IN  IF I = {} THEN 0 ELSE CHOOSE i \in I : \A j \in I : i <= j

\* The least index i >= from of s with s[i] not in chars; 0 when none.
find_not_in(s, chars, from) ==
    LET I == {i \in from..Len(s) : s[i] \notin chars}
    IN  IF I = {} THEN 0 ELSE CHOOSE i \in I : \A j \in I : i <= j

\* The greatest index i of s with s[i] not in chars; 0 when none.
rfind_not_in(s, chars) ==
    LET I == {i \in 1..Len(s) : s[i] \notin chars}
    IN  IF I = {} THEN 0 ELSE CHOOSE i \in I : \A j \in I : j <= i

\* s.lstrip(chars)
lstrip_chars(s, chars) ==
    IF find_not_in(s, chars, 1) = 0 THEN <<>>
    ELSE SubSeq(s, find_not_in(s, chars, 1), Len(s))

\* s.rstrip(chars)
rstrip_chars(s, chars) == SubSeq(s, 1, rfind_not_in(s, chars))

\* s.strip(chars): every leading and trailing character of chars is removed.
strip_chars(s, chars) == rstrip_chars(lstrip_chars(s, chars), chars)

\* s.strip()
strip(s) == strip_chars(s, Whitespace)

\* s.startswith(prefix)
startswith(s, prefix) ==
    Len(s) >= Len(prefix) /\ SubSeq(s, 1, Len(prefix)) = prefix

\* The least index i >= from where sub occurs in s; 0 when there is none.
find_str(s, sub, from) ==
    LET I == {i \in from..(Len(s) - Len(sub) + 1) :
                 SubSeq(s, i, i + Len(sub) - 1) = sub}
    IN  IF I = {} THEN 0 ELSE CHOOSE i \in I : \A j \in I : i <= j

\* sub in s
contains(s, sub) == find_str(s, sub, 1) # 0

RECURSIVE SplitLinesFrom(_, _)
SplitLinesFrom(s, from) ==
    LET i == find_in(s, LineBoundaries, from)
    IN  IF from > Len(s) THEN <<>>
        ELSE IF i = 0 THEN <<SubSeq(s, from, Len(s))>>
        ELSE <<SubSeq(s, from, i - 1)>>
             \o SplitLinesFrom(s, IF s[i] = "\r" /\ i < Len(s) /\ s[i + 1] = "\n"
                                  THEN i + 2 ELSE i + 1)

\* s.splitlines(): the lines without their line breaks; a line break at the
\* very end opens no further line.
splitlines(s) == SplitLinesFrom(s, 1)

RECURSIVE SplitFrom(_, _, _, _)
SplitFrom(s, sep, maxsplit, from) ==
    LET i == find_in(s, {sep}, from)
    IN  IF maxsplit = 0 \/ i = 0 THEN <<SubSeq(s, from, Len(s))>>
        ELSE <<SubSeq(s, from, i - 1)>> \o SplitFrom(s, sep, maxsplit - 1, i + 1)

\* s.split(sep, maxsplit), sep one character: at most maxsplit splits are
\* made, from the left, and the last element is the rest of the string.
split(s, sep, maxsplit) == SplitFrom(s, sep, maxsplit, 1)

RECURSIVE SplitStrFrom(_, _, _)
SplitStrFrom(s, sep, from) ==
    LET i == find_str(s, sep, from)
    IN  IF i = 0 THEN <<SubSeq(s, from, Len(s))>>
        ELSE <<SubSeq(s, from, i - 1)>> \o SplitStrFrom(s, sep, i + Len(sep))

\* s.split(sep), sep a non-empty string, no limit on the splits.
split_str(s, sep) == SplitStrFrom(s, sep, 1)

RECURSIVE SplitWsFrom(_, _, _)
SplitWsFrom(s, maxsplit, from) ==
    LET b == find_not_in(s, Whitespace, from)
        e == find_in(s, Whitespace, b)
    IN  IF b = 0 THEN <<>>
        ELSE IF maxsplit = 0 \/ e = 0 THEN <<SubSeq(s, b, Len(s))>>
        ELSE <<SubSeq(s, b, e - 1)>> \o SplitWsFrom(s, maxsplit - 1, e)

\* s.split(None, maxsplit): split at runs of whitespace, at most maxsplit
\* times; the last element is the rest, its leading whitespace removed.
split_ws(s, maxsplit) == SplitWsFrom(s, maxsplit, 1)

(***************************************************************************)
(* Vagrant._parse_machine_readable_output                                  *)
(***************************************************************************)
\* [line.split(',', 4) for line in output.splitlines() if line.strip()]
parsed_lines(text) ==
    LET lines == SelectSeq(splitlines(text), LAMBDA line : strip(line) # <<>>)
    IN  [i \in 1..Len(lines) |-> split(lines[i], ",", MaxSplit)]

\* filter(lambda x: x[2] not in ["metadata", "ui", "action"], parsed_lines):
\* x[2] of a line of fewer than three fields raises IndexError.
_parse_machine_readable_output(text) ==
    LET pl == parsed_lines(text)
    IN  IF \E i \in 1..Len(pl) : Len(pl[i]) < 3
        THEN Raise("IndexError")
        ELSE Ok(SelectSeq(pl, LAMBDA x : x[3] \notin IgnoredKinds))

(***************************************************************************)
(* Python's dict                                                           *)
(***************************************************************************)
EmptyDict == [k \in {} |-> None]

\* d[k] = v
dict_set(d, k, v) ==
    [x \in (DOMAIN d) \cup {k} |-> IF x = k THEN v ELSE d[x]]

\* d.get(k): None when k is no key of d
dict_get(d, k) == IF k \in DOMAIN d THEN d[k] ELSE None

(***************************************************************************)
(* Vagrant._parse_status                                                   *)
(***************************************************************************)
RECURSIVE GroupByAcc(_, _)
GroupByAcc(rest, acc) ==
    IF rest = <<>> THEN acc
    ELSE LET tup == Head(rest)
         IN  IF acc # <<>> /\ acc[Len(acc)].key = tup[2]
             THEN GroupByAcc(Tail(rest),
                             [acc EXCEPT ![Len(acc)].tuples = Append(@, tup)])
             ELSE GroupByAcc(Tail(rest),
                             Append(acc, [key |-> tup[2], tuples |-> <<tup>>]))

RECURSIVE GroupMergedAcc(_, _)
GroupMergedAcc(rest, acc) ==
    IF rest = <<>> THEN acc
    ELSE LET tup == Head(rest)
             K == {k \in 1..Len(acc) : acc[k].key = tup[2]}
         IN  IF K # {}
             THEN GroupMergedAcc(Tail(rest),
                     [acc EXCEPT ![CHOOSE k \in K : TRUE].tuples = Append(@, tup)])
             ELSE GroupMergedAcc(Tail(rest),
                     Append(acc, [key |-> tup[2], tuples |-> <<tup>>]))

\* groupby that gathers every tuple of a target in one group, adjacent or not.
groupby_merged(tuples) == GroupMergedAcc(tuples, <<>>)

\* itertools.groupby(parsed, lambda tup: tup[1]): one group per maximal run
\* of consecutive tuples with the same target.
groupby(tuples) == GroupByAcc(tuples, <<>>)

RECURSIVE InfoAcc(_, _)
InfoAcc(tuples, info) ==
    IF tuples = <<>> THEN info
    ELSE InfoAcc(Tail(tuples), dict_set(info, Head(tuples)[3], Head(tuples)[4]))

RECURSIVE InfoFirstAcc(_, _)
InfoFirstAcc(tuples, info) ==
    IF tuples = <<>> THEN info
    ELSE InfoFirstAcc(Tail(tuples),
                      IF Head(tuples)[3] \in DOMAIN info THEN info
                      ELSE dict_set(info, Head(tuples)[3], Head(tuples)[4]))

\* info_dict keeping the first tuple of a kind instead of the last.
info_dict_first_wins(tuples) == InfoFirstAcc(tuples, EmptyDict)

\* {kind: data for timestamp, _, kind, data in tuples}: a later tuple
\* overwrites an earlier one of the same kind.
info_dict(tuples) == InfoAcc(tuples, EmptyDict)

\* The statuses of the groups; unpacking a tuple that has not exactly four
\* fields into (timestamp, _, kind, data) raises ValueError.
statuses_of(groups) ==
    IF \E g \in 1..Len(groups) :
           \E i \in 1..Len(groups[g].tuples) : Len(groups[g].tuples[i]) # 4
    THEN Raise("ValueError")
    ELSE Ok([g \in 1..Len(groups) |->
                LET info == info_dict(groups[g].tuples)
                IN  Status(groups[g].key, dict_get(info, K_state),
                           dict_get(info, K_provider_name))])

_parse_status(text) ==
    LET p == _parse_machine_readable_output(text)
    IN  IF p.exc # "none" THEN p ELSE statuses_of(groupby(p.value))

(***************************************************************************)
(* Vagrant._parse_box_list                                                 *)
(***************************************************************************)
\* name = provider = version = None
BoxInit == [boxes |-> <<>>, name |-> None, provider |-> None, version |-> None]

\* finish_box testing `if name:`, which an empty name fails too.
finish_box_truthy(acc) ==
    IF acc.name # None /\ acc.name # <<>>
    THEN Append(acc.boxes, Box(acc.name, acc.provider, acc.version))
    ELSE acc.boxes

\* "finish the previous box, if any"
finish_box(acc) ==
    IF acc.name # None
    THEN Append(acc.boxes, Box(acc.name, acc.provider, acc.version))
    ELSE acc.boxes

\* start_box without `provider = version = None`.
start_box_keep(acc, data) ==
    [acc EXCEPT !.boxes = finish_box(acc), !.name = data]

\* "start a new box": name = data; provider = version = None
start_box(acc, data) ==
    [boxes |-> finish_box(acc), name |-> data,
     provider |-> None, version |-> None]

\* One turn of the loop over the decoded tuples.
box_step(acc, kind, data) ==
    IF kind = K_box_name THEN start_box(acc, data)
    ELSE IF kind = K_box_provider THEN [acc EXCEPT !.provider = data]
    ELSE IF kind = K_box_version THEN [acc EXCEPT !.version = data]
    ELSE acc

RECURSIVE BoxLoop(_, _)
BoxLoop(rest, acc) ==
    IF rest = <<>> THEN Ok(finish_box(acc))
    ELSE IF Len(Head(rest)) # 4 THEN Raise("ValueError")
    ELSE BoxLoop(Tail(rest), box_step(acc, Head(rest)[3], Head(rest)[4]))

_parse_box_list(text) ==
    LET p == _parse_machine_readable_output(text)
    IN  IF p.exc # "none" THEN p ELSE BoxLoop(p.value, BoxInit)

(***************************************************************************)
(* Vagrant._parse_plugin_list                                              *)
(***************************************************************************)
\* The characters c that str.lower() changes into one other character,
\* whatever stands around them: len(c.lower()) == 1 and c.lower() != c,
\* without the capital sigma.
UpperCase ==
    <<"A", "B", "C", "D", "E", "F", "G", "H", "I", "J", "K", "L", "M", "N",
      "O", "P", "Q", "R", "S", "T", "U", "V", "W", "X", "Y", "Z", "À", "Á",
      "Â", "Ã", "Ä", "Å", "Æ", "Ç", "È", "É", "Ê", "Ë", "Ì", "Í", "Î", "Ï",
      "Ð", "Ñ", "Ò", "Ó", "Ô", "Õ", "Ö", "Ø", "Ù", "Ú", "Û", "Ü", "Ý", "Þ",
      "U+0100", "U+0102", "U+0104", "U+0106", "U+0108", "U+010A", "U+010C",
      "U+010E", "U+0110", "U+0112", "U+0114", "U+0116", "U+0118", "U+011A",
      "U+011C", "U+011E", "U+0120", "U+0122", "U+0124", "U+0126", "U+0128",
      "U+012A", "U+012C", "U+012E", "U+0132", "U+0134", "U+0136", "U+0139",
      "U+013B", "U+013D", "U+013F", "U+0141", "U+0143", "U+0145", "U+0147",
      "U+014A", "U+014C", "U+014E", "U+0150", "U+0152", "U+0154", "U+0156",
      "U+0158", "U+015A", "U+015C", "U+015E", "U+0160", "U+0162", "U+0164",
      "U+0166", "U+0168", "U+016A", "U+016C", "U+016E", "U+0170", "U+0172",
      "U+0174", "U+0176", "U+0178", "U+0179", "U+017B", "U+017D", "Ɓ", "Ƃ",
      "Ƅ", "Ɔ", "Ƈ", "Ɖ", "Ɗ", "Ƌ", "Ǝ", "Ə", "Ɛ", "Ƒ", "Ɠ", "Ɣ", "Ɩ", "Ɨ",
      "Ƙ", "Ɯ", "Ɲ", "Ɵ", "Ơ", "Ƣ", "Ƥ", "Ʀ", "Ƨ", "Ʃ", "Ƭ", "Ʈ", "Ư", "Ʊ",
      "Ʋ", "Ƴ", "Ƶ", "Ʒ", "Ƹ", "Ƽ", "Ǆ", "ǅ", "Ǉ", "ǈ", "Ǌ", "ǋ", "Ǎ", "Ǐ",
      "Ǒ", "Ǔ", "Ǖ", "Ǘ", "Ǚ", "Ǜ", "Ǟ", "Ǡ", "Ǣ", "Ǥ", "Ǧ", "Ǩ", "Ǫ", "Ǭ",
      "Ǯ", "Ǳ", "ǲ", "Ǵ", "Ƕ", "Ƿ", "Ǹ", "Ǻ", "Ǽ", "Ǿ", "U+0200", "U+0202",
      "U+0204", "U+0206", "U+0208", "U+020A", "U+020C", "U+020E", "U+0210",
      "U+0212", "U+0214", "U+0216", "U+0218", "U+021A", "U+021C", "U+021E",
      "U+0220", "U+0222", "U+0224", "U+0226", "U+0228", "U+022A", "U+022C",
      "U+022E", "U+0230", "U+0232", "U+023A", "U+023B", "U+023D", "U+023E",
      "U+0241", "U+0243", "U+0244", "U+0245", "U+0246", "U+0248", "U+024A",
      "U+024C", "U+024E", "U+0370", "U+0372", "U+0376", "U+037F", "Ά", "Έ",
      "Ή", "Ί", "Ό", "Ύ", "Ώ", "Α", "Β", "Γ", "Δ", "Ε", "Ζ", "Η", "Θ", "Ι",
      "Κ", "Λ", "Μ", "Ν", "Ξ", "Ο", "Π", "Ρ", "Τ", "Υ", "Φ", "Χ", "Ψ", "Ω",
      "Ϊ", "Ϋ", "Ϗ", "Ϙ", "Ϛ", "Ϝ", "Ϟ", "Ϡ", "Ϣ", "Ϥ", "Ϧ", "Ϩ", "Ϫ", "Ϭ",
      "Ϯ", "ϴ", "Ϸ", "Ϲ", "Ϻ", "Ͻ", "Ͼ", "Ͽ", "U+0400", "U+0401", "U+0402",
      "U+0403", "U+0404", "U+0405", "U+0406", "U+0407", "U+0408", "U+0409",
      "U+040A", "U+040B", "U+040C", "U+040D", "U+040E", "U+040F", "U+0410",
      "U+0411", "U+0412", "U+0413", "U+0414", "U+0415", "U+0416", "U+0417",
      "U+0418", "U+0419", "U+041A", "U+041B", "U+041C", "U+041D", "U+041E",
      "U+041F", "U+0420", "U+0421", "U+0422", "U+0423", "U+0424", "U+0425",
      "U+0426", "U+0427", "U+0428", "U+0429", "U+042A", "U+042B", "U+042C",
      "U+042D", "U+042E", "U+042F", "U+0460", "U+0462", "U+0464", "U+0466",
      "U+0468", "U+046A", "U+046C", "U+046E", "U+0470", "U+0472", "U+0474",
      "U+0476", "U+0478", "U+047A", "U+047C", "U+047E", "Ҁ", "Ҋ", "Ҍ", "Ҏ",
      "Ґ", "Ғ", "Ҕ", "Җ", "Ҙ", "Қ", "Ҝ", "Ҟ", "Ҡ", "Ң", "Ҥ", "Ҧ", "Ҩ", "Ҫ",
      "Ҭ", "Ү", "Ұ", "Ҳ", "Ҵ", "Ҷ", "Ҹ", "Һ", "Ҽ", "Ҿ", "Ӏ", "Ӂ", "Ӄ", "Ӆ",
      "Ӈ", "Ӊ", "Ӌ", "Ӎ", "Ӑ", "Ӓ", "Ӕ", "Ӗ", "Ә", "Ӛ", "Ӝ", "Ӟ", "Ӡ", "Ӣ",
      "Ӥ", "Ӧ", "Ө", "Ӫ", "Ӭ", "Ӯ", "Ӱ", "Ӳ", "Ӵ", "Ӷ", "Ӹ", "Ӻ", "Ӽ", "Ӿ",
      "U+0500", "U+0502", "U+0504", "U+0506", "U+0508", "U+050A", "U+050C",
      "U+050E", "U+0510", "U+0512", "U+0514", "U+0516", "U+0518", "U+051A",
      "U+051C", "U+051E", "U+0520", "U+0522", "U+0524", "U+0526", "U+0528",
      "U+052A", "U+052C", "U+052E", "U+0531", "U+0532", "U+0533", "U+0534",
      "U+0535", "U+0536", "U+0537", "U+0538", "U+0539", "U+053A", "U+053B",
      "U+053C", "U+053D", "U+053E", "U+053F", "U+0540", "U+0541", "U+0542",
      "U+0543", "U+0544", "U+0545", "U+0546", "U+0547", "U+0548", "U+0549",
      "U+054A", "U+054B", "U+054C", "U+054D", "U+054E", "U+054F", "U+0550",
      "U+0551", "U+0552", "U+0553", "U+0554", "U+0555", "U+0556", "Ⴀ", "Ⴁ",
      "Ⴂ", "Ⴃ", "Ⴄ", "Ⴅ", "Ⴆ", "Ⴇ", "Ⴈ", "Ⴉ", "Ⴊ", "Ⴋ", "Ⴌ", "Ⴍ", "Ⴎ", "Ⴏ",
      "Ⴐ", "Ⴑ", "Ⴒ", "Ⴓ", "Ⴔ", "Ⴕ", "Ⴖ", "Ⴗ", "Ⴘ", "Ⴙ", "Ⴚ", "Ⴛ", "Ⴜ", "Ⴝ",
      "Ⴞ", "Ⴟ", "Ⴠ", "Ⴡ", "Ⴢ", "Ⴣ", "Ⴤ", "Ⴥ", "Ⴧ", "Ⴭ", "Ꭰ", "Ꭱ", "Ꭲ", "Ꭳ",
      "Ꭴ", "Ꭵ", "Ꭶ", "Ꭷ", "Ꭸ", "Ꭹ", "Ꭺ", "Ꭻ", "Ꭼ", "Ꭽ", "Ꭾ", "Ꭿ", "Ꮀ", "Ꮁ",
      "Ꮂ", "Ꮃ", "Ꮄ", "Ꮅ", "Ꮆ", "Ꮇ", "Ꮈ", "Ꮉ", "Ꮊ", "Ꮋ", "Ꮌ", "Ꮍ", "Ꮎ", "Ꮏ",
      "Ꮐ", "Ꮑ", "Ꮒ", "Ꮓ", "Ꮔ", "Ꮕ", "Ꮖ", "Ꮗ", "Ꮘ", "Ꮙ", "Ꮚ", "Ꮛ", "Ꮜ", "Ꮝ",
      "Ꮞ", "Ꮟ", "Ꮠ", "Ꮡ", "Ꮢ", "Ꮣ", "Ꮤ", "Ꮥ", "Ꮦ", "Ꮧ", "Ꮨ", "Ꮩ", "Ꮪ", "Ꮫ",
      "Ꮬ", "Ꮭ", "Ꮮ", "Ꮯ", "Ꮰ", "Ꮱ", "Ꮲ", "Ꮳ", "Ꮴ", "Ꮵ", "Ꮶ", "Ꮷ", "Ꮸ", "Ꮹ",
      "Ꮺ", "Ꮻ", "Ꮼ", "Ꮽ", "Ꮾ", "Ꮿ", "Ᏸ", "Ᏹ", "Ᏺ", "Ᏻ", "Ᏼ", "Ᏽ", "Ა", "Ბ",
      "Გ", "Დ", "Ე", "Ვ", "Ზ", "Თ", "Ი", "Კ", "Ლ", "Მ", "Ნ", "Ო", "Პ", "Ჟ",
      "Რ", "Ს", "Ტ", "Უ", "Ფ", "Ქ", "Ღ", "Ყ", "Შ", "Ჩ", "Ც", "Ძ", "Წ", "Ჭ",
      "Ხ", "Ჯ", "Ჰ", "Ჱ", "Ჲ", "Ჳ", "Ჴ", "Ჵ", "Ჶ", "Ჷ", "Ჸ", "Ჹ", "Ჺ", "Ჽ",
      "Ჾ", "Ჿ", "U+1E00", "U+1E02", "U+1E04", "U+1E06", "U+1E08", "U+1E0A",
      "U+1E0C", "U+1E0E", "U+1E10", "U+1E12", "U+1E14", "U+1E16", "U+1E18",
      "U+1E1A", "U+1E1C", "U+1E1E", "U+1E20", "U+1E22", "U+1E24", "U+1E26",
      "U+1E28", "U+1E2A", "U+1E2C", "U+1E2E", "U+1E30", "U+1E32", "U+1E34",
      "U+1E36", "U+1E38", "U+1E3A", "U+1E3C", "U+1E3E", "U+1E40", "U+1E42",
      "U+1E44", "U+1E46", "U+1E48", "U+1E4A", "U+1E4C", "U+1E4E", "U+1E50",
      "U+1E52", "U+1E54", "U+1E56", "U+1E58", "U+1E5A", "U+1E5C", "U+1E5E",
      "U+1E60", "U+1E62", "U+1E64", "U+1E66", "U+1E68", "U+1E6A", "U+1E6C",
      "U+1E6E", "U+1E70", "U+1E72", "U+1E74", "U+1E76", "U+1E78", "U+1E7A",
      "U+1E7C", "U+1E7E", "Ẁ", "Ẃ", "Ẅ", "Ẇ", "Ẉ", "Ẋ", "Ẍ", "Ẏ", "Ẑ", "Ẓ",
      "Ẕ", "ẞ", "Ạ", "Ả", "Ấ", "Ầ", "Ẩ", "Ẫ", "Ậ", "Ắ", "Ằ", "Ẳ", "Ẵ", "Ặ",
      "Ẹ", "Ẻ", "Ẽ", "Ế", "Ề", "Ể", "Ễ", "Ệ", "Ỉ", "Ị", "Ọ", "Ỏ", "Ố", "Ồ",
      "Ổ", "Ỗ", "Ộ", "Ớ", "Ờ", "Ở", "Ỡ", "Ợ", "Ụ", "Ủ", "Ứ", "Ừ", "Ử", "Ữ",
      "Ự", "Ỳ", "Ỵ", "Ỷ", "Ỹ", "Ỻ", "Ỽ", "Ỿ", "U+1F08", "U+1F09", "U+1F0A",
      "U+1F0B", "U+1F0C", "U+1F0D", "U+1F0E", "U+1F0F", "U+1F18", "U+1F19",
      "U+1F1A", "U+1F1B", "U+1F1C", "U+1F1D", "U+1F28", "U+1F29", "U+1F2A",
      "U+1F2B", "U+1F2C", "U+1F2D", "U+1F2E", "U+1F2F", "U+1F38", "U+1F39",
      "U+1F3A", "U+1F3B", "U+1F3C", "U+1F3D", "U+1F3E", "U+1F3F", "U+1F48",
      "U+1F49", "U+1F4A", "U+1F4B", "U+1F4C", "U+1F4D", "U+1F59", "U+1F5B",
      "U+1F5D", "U+1F5F", "U+1F68", "U+1F69", "U+1F6A", "U+1F6B", "U+1F6C",
      "U+1F6D", "U+1F6E", "U+1F6F", "ᾈ", "ᾉ", "ᾊ", "ᾋ", "ᾌ", "ᾍ", "ᾎ", "ᾏ",
      "ᾘ", "ᾙ", "ᾚ", "ᾛ", "ᾜ", "ᾝ", "ᾞ", "ᾟ", "ᾨ", "ᾩ", "ᾪ", "ᾫ", "ᾬ", "ᾭ",
      "ᾮ", "ᾯ", "Ᾰ", "Ᾱ", "Ὰ", "Ά", "ᾼ", "Ὲ", "Έ", "Ὴ", "Ή", "ῌ", "Ῐ", "Ῑ",
      "Ὶ", "Ί", "Ῠ", "Ῡ", "Ὺ", "Ύ", "Ῥ", "Ὸ", "Ό", "Ὼ", "Ώ", "ῼ", "U+2126",
      "U+212A", "U+212B", "U+2132", "U+2160", "U+2161", "U+2162", "U+2163",
      "U+2164", "U+2165", "U+2166", "U+2167", "U+2168", "U+2169", "U+216A",
      "U+216B", "U+216C", "U+216D", "U+216E", "U+216F", "Ↄ", "Ⓐ", "Ⓑ", "Ⓒ",
      "Ⓓ", "Ⓔ", "Ⓕ", "Ⓖ", "Ⓗ", "Ⓘ", "Ⓙ", "Ⓚ", "Ⓛ", "Ⓜ", "Ⓝ", "Ⓞ", "Ⓟ", "Ⓠ",
      "Ⓡ", "Ⓢ", "Ⓣ", "Ⓤ", "Ⓥ", "Ⓦ", "Ⓧ", "Ⓨ", "Ⓩ", "U+2C00", "U+2C01",
      "U+2C02", "U+2C03", "U+2C04", "U+2C05", "U+2C06", "U+2C07", "U+2C08",
      "U+2C09", "U+2C0A", "U+2C0B", "U+2C0C", "U+2C0D", "U+2C0E", "U+2C0F",
      "U+2C10", "U+2C11", "U+2C12", "U+2C13", "U+2C14", "U+2C15", "U+2C16",
      "U+2C17", "U+2C18", "U+2C19", "U+2C1A", "U+2C1B", "U+2C1C", "U+2C1D",
      "U+2C1E", "U+2C1F", "U+2C20", "U+2C21", "U+2C22", "U+2C23", "U+2C24",
      "U+2C25", "U+2C26", "U+2C27", "U+2C28", "U+2C29", "U+2C2A", "U+2C2B",
      "U+2C2C", "U+2C2D", "U+2C2E", "U+2C2F", "U+2C60", "U+2C62", "U+2C63",
      "U+2C64", "U+2C67", "U+2C69", "U+2C6B", "U+2C6D", "U+2C6E", "U+2C6F",
      "U+2C70", "U+2C72", "U+2C75", "U+2C7E", "U+2C7F", "Ⲁ", "Ⲃ", "Ⲅ", "Ⲇ",
      "Ⲉ", "Ⲋ", "Ⲍ", "Ⲏ", "Ⲑ", "Ⲓ", "Ⲕ", "Ⲗ", "Ⲙ", "Ⲛ", "Ⲝ", "Ⲟ", "Ⲡ", "Ⲣ",
      "Ⲥ", "Ⲧ", "Ⲩ", "Ⲫ", "Ⲭ", "Ⲯ", "Ⲱ", "Ⲳ", "Ⲵ", "Ⲷ", "Ⲹ", "Ⲻ", "Ⲽ", "Ⲿ",
      "Ⳁ", "Ⳃ", "Ⳅ", "Ⳇ", "Ⳉ", "Ⳋ", "Ⳍ", "Ⳏ", "Ⳑ", "Ⳓ", "Ⳕ", "Ⳗ", "Ⳙ", "Ⳛ",
      "Ⳝ", "Ⳟ", "Ⳡ", "Ⳣ", "Ⳬ", "Ⳮ", "Ⳳ", "U+A640", "U+A642", "U+A644",
      "U+A646", "U+A648", "U+A64A", "U+A64C", "U+A64E", "U+A650", "U+A652",
      "U+A654", "U+A656", "U+A658", "U+A65A", "U+A65C", "U+A65E", "U+A660",
      "U+A662", "U+A664", "U+A666", "U+A668", "U+A66A", "U+A66C", "Ꚁ", "Ꚃ",
      "Ꚅ", "Ꚇ", "Ꚉ", "Ꚋ", "Ꚍ", "Ꚏ", "Ꚑ", "Ꚓ", "Ꚕ", "Ꚗ", "Ꚙ", "Ꚛ", "U+A722",
      "U+A724", "U+A726", "U+A728", "U+A72A", "U+A72C", "U+A72E", "U+A732",
      "U+A734", "U+A736", "U+A738", "U+A73A", "U+A73C", "U+A73E", "U+A740",
      "U+A742", "U+A744", "U+A746", "U+A748", "U+A74A", "U+A74C", "U+A74E",
      "U+A750", "U+A752", "U+A754", "U+A756", "U+A758", "U+A75A", "U+A75C",
      "U+A75E", "U+A760", "U+A762", "U+A764", "U+A766", "U+A768", "U+A76A",
      "U+A76C", "U+A76E", "U+A779", "U+A77B", "U+A77D", "U+A77E", "Ꞁ", "Ꞃ",
      "Ꞅ", "Ꞇ", "Ꞌ", "Ɥ", "Ꞑ", "Ꞓ", "Ꞗ", "Ꞙ", "Ꞛ", "Ꞝ", "Ꞟ", "Ꞡ", "Ꞣ", "Ꞥ",
      "Ꞧ", "Ꞩ", "Ɦ", "Ɜ", "Ɡ", "Ɬ", "Ɪ", "Ʞ", "Ʇ", "Ʝ", "Ꭓ", "Ꞵ", "Ꞷ", "Ꞹ",
      "Ꞻ", "Ꞽ", "Ꞿ", "Ꟁ", "Ꟃ", "Ꞔ", "Ʂ", "Ᶎ", "Ꟈ", "Ꟊ", "Ꟑ", "Ꟗ", "Ꟙ", "Ꟶ",
      "U+FF21", "U+FF22", "U+FF23", "U+FF24", "U+FF25", "U+FF26", "U+FF27",
      "U+FF28", "U+FF29", "U+FF2A", "U+FF2B", "U+FF2C", "U+FF2D", "U+FF2E",
      "U+FF2F", "U+FF30", "U+FF31", "U+FF32", "U+FF33", "U+FF34", "U+FF35",
      "U+FF36", "U+FF37", "U+FF38", "U+FF39", "U+FF3A", "U+10400", "U+10401",
      "U+10402", "U+10403", "U+10404", "U+10405", "U+10406", "U+10407",
      "U+10408", "U+10409", "U+1040A", "U+1040B", "U+1040C", "U+1040D",
      "U+1040E", "U+1040F", "U+10410", "U+10411", "U+10412", "U+10413",
      "U+10414", "U+10415", "U+10416", "U+10417", "U+10418", "U+10419",
      "U+1041A", "U+1041B", "U+1041C", "U+1041D", "U+1041E", "U+1041F",
      "U+10420", "U+10421", "U+10422", "U+10423", "U+10424", "U+10425",
      "U+10426", "U+10427", "U+104B0", "U+104B1", "U+104B2", "U+104B3",
      "U+104B4", "U+104B5", "U+104B6", "U+104B7", "U+104B8", "U+104B9",
      "U+104BA", "U+104BB", "U+104BC", "U+104BD", "U+104BE", "U+104BF",
      "U+104C0", "U+104C1", "U+104C2", "U+104C3", "U+104C4", "U+104C5",
      "U+104C6", "U+104C7", "U+104C8", "U+104C9", "U+104CA", "U+104CB",
      "U+104CC", "U+104CD", "U+104CE", "U+104CF", "U+104D0", "U+104D1",
      "U+104D2", "U+104D3", "U+10570", "U+10571", "U+10572", "U+10573",
      "U+10574", "U+10575", "U+10576", "U+10577", "U+10578", "U+10579",
      "U+1057A", "U+1057C", "U+1057D", "U+1057E", "U+1057F", "U+10580",
      "U+10581", "U+10582", "U+10583", "U+10584", "U+10585", "U+10586",
      "U+10587", "U+10588", "U+10589", "U+1058A", "U+1058C", "U+1058D",
      "U+1058E", "U+1058F", "U+10590", "U+10591", "U+10592", "U+10594",
      "U+10595", "U+10C80", "U+10C81", "U+10C82", "U+10C83", "U+10C84",
      "U+10C85", "U+10C86", "U+10C87", "U+10C88", "U+10C89", "U+10C8A",
      "U+10C8B", "U+10C8C", "U+10C8D", "U+10C8E", "U+10C8F", "U+10C90",
      "U+10C91", "U+10C92", "U+10C93", "U+10C94", "U+10C95", "U+10C96",
      "U+10C97", "U+10C98", "U+10C99", "U+10C9A", "U+10C9B", "U+10C9C",
      "U+10C9D", "U+10C9E", "U+10C9F", "U+10CA0", "U+10CA1", "U+10CA2",
      "U+10CA3", "U+10CA4", "U+10CA5", "U+10CA6", "U+10CA7", "U+10CA8",
      "U+10CA9", "U+10CAA", "U+10CAB", "U+10CAC", "U+10CAD", "U+10CAE",
      "U+10CAF", "U+10CB0", "U+10CB1", "U+10CB2", "U+118A0", "U+118A1",
      "U+118A2", "U+118A3", "U+118A4", "U+118A5", "U+118A6", "U+118A7",
      "U+118A8", "U+118A9", "U+118AA", "U+118AB", "U+118AC", "U+118AD",
      "U+118AE", "U+118AF", "U+118B0", "U+118B1", "U+118B2", "U+118B3",
      "U+118B4", "U+118B5", "U+118B6", "U+118B7", "U+118B8", "U+118B9",
      "U+118BA", "U+118BB", "U+118BC", "U+118BD", "U+118BE", "U+118BF",
      "U+16E40", "U+16E41", "U+16E42", "U+16E43", "U+16E44", "U+16E45",
      "U+16E46", "U+16E47", "U+16E48", "U+16E49", "U+16E4A", "U+16E4B",
      "U+16E4C", "U+16E4D", "U+16E4E", "U+16E4F", "U+16E50", "U+16E51",
      "U+16E52", "U+16E53", "U+16E54", "U+16E55", "U+16E56", "U+16E57",
      "U+16E58", "U+16E59", "U+16E5A", "U+16E5B", "U+16E5C", "U+16E5D",
      "U+16E5E", "U+16E5F", "U+1E900", "U+1E901", "U+1E902", "U+1E903",
      "U+1E904", "U+1E905", "U+1E906", "U+1E907", "U+1E908", "U+1E909",
      "U+1E90A", "U+1E90B", "U+1E90C", "U+1E90D", "U+1E90E", "U+1E90F",
      "U+1E910", "U+1E911", "U+1E912", "U+1E913", "U+1E914", "U+1E915",
      "U+1E916", "U+1E917", "U+1E918", "U+1E919", "U+1E91A", "U+1E91B",
      "U+1E91C", "U+1E91D", "U+1E91E", "U+1E91F", "U+1E920", "U+1E921">>

\* What lower() makes of them, in the same order.
LowerCase ==
    <<"a", "b", "c", "d", "e", "f", "g", "h", "i", "j", "k", "l", "m", "n",
      "o", "p", "q", "r", "s", "t", "u", "v", "w", "x", "y", "z", "à", "á",
      "â", "ã", "ä", "å", "æ", "ç", "è", "é", "ê", "ë", "ì", "í", "î", "ï",
      "ð", "ñ", "ò", "ó", "ô", "õ", "ö", "ø", "ù", "ú", "û", "ü", "ý", "þ",
      "U+0101", "U+0103", "U+0105", "U+0107", "U+0109", "U+010B", "U+010D",
      "U+010F", "U+0111", "U+0113", "U+0115", "U+0117", "U+0119", "U+011B",
      "U+011D", "U+011F", "U+0121", "U+0123", "U+0125", "U+0127", "U+0129",
      "U+012B", "U+012D", "U+012F", "U+0133", "U+0135", "U+0137", "U+013A",
      "U+013C", "U+013E", "U+0140", "U+0142", "U+0144", "U+0146", "U+0148",
      "U+014B", "U+014D", "U+014F", "U+0151", "U+0153", "U+0155", "U+0157",
      "U+0159", "U+015B", "U+015D", "U+015F", "U+0161", "U+0163", "U+0165",
      "U+0167", "U+0169", "U+016B", "U+016D", "U+016F", "U+0171", "U+0173",
      "U+0175", "U+0177", "ÿ", "U+017A", "U+017C", "U+017E", "U+0253", "ƃ",
      "ƅ", "U+0254", "ƈ", "U+0256", "U+0257", "ƌ", "ǝ", "U+0259", "U+025B",
      "ƒ", "U+0260", "U+0263", "U+0269", "U+0268", "ƙ", "U+026F", "U+0272",
      "U+0275", "ơ", "ƣ", "ƥ", "ʀ", "ƨ", "ʃ", "ƭ", "ʈ", "ư", "ʊ", "ʋ", "ƴ",
      "ƶ", "ʒ", "ƹ", "ƽ", "ǆ", "ǆ", "ǉ", "ǉ", "ǌ", "ǌ", "ǎ", "ǐ", "ǒ", "ǔ",
      "ǖ", "ǘ", "ǚ", "ǜ", "ǟ", "ǡ", "ǣ", "ǥ", "ǧ", "ǩ", "ǫ", "ǭ", "ǯ", "ǳ",
      "ǳ", "ǵ", "ƕ", "ƿ", "ǹ", "ǻ", "ǽ", "ǿ", "U+0201", "U+0203", "U+0205",
      "U+0207", "U+0209", "U+020B", "U+020D", "U+020F", "U+0211", "U+0213",
      "U+0215", "U+0217", "U+0219", "U+021B", "U+021D", "U+021F", "ƞ",
      "U+0223", "U+0225", "U+0227", "U+0229", "U+022B", "U+022D", "U+022F",
      "U+0231", "U+0233", "U+2C65", "U+023C", "ƚ", "U+2C66", "U+0242", "ƀ",
      "ʉ", "ʌ", "U+0247", "U+0249", "U+024B", "U+024D", "U+024F", "U+0371",
      "U+0373", "U+0377", "ϳ", "ά", "έ", "ή", "ί", "ό", "ύ", "ώ", "α", "β",
      "γ", "δ", "ε", "ζ", "η", "θ", "ι", "κ", "λ", "μ", "ν", "ξ", "ο", "π",
      "ρ", "τ", "υ", "φ", "χ", "ψ", "ω", "ϊ", "ϋ", "ϗ", "ϙ", "ϛ", "ϝ", "ϟ",
      "ϡ", "ϣ", "ϥ", "ϧ", "ϩ", "ϫ", "ϭ", "ϯ", "θ", "ϸ", "ϲ", "ϻ", "U+037B",
      "U+037C", "U+037D", "U+0450", "U+0451", "U+0452", "U+0453", "U+0454",
      "U+0455", "U+0456", "U+0457", "U+0458", "U+0459", "U+045A", "U+045B",
      "U+045C", "U+045D", "U+045E", "U+045F", "U+0430", "U+0431", "U+0432",
      "U+0433", "U+0434", "U+0435", "U+0436", "U+0437", "U+0438", "U+0439",
      "U+043A", "U+043B", "U+043C", "U+043D", "U+043E", "U+043F", "U+0440",
      "U+0441", "U+0442", "U+0443", "U+0444", "U+0445", "U+0446", "U+0447",
      "U+0448", "U+0449", "U+044A", "U+044B", "U+044C", "U+044D", "U+044E",
      "U+044F", "U+0461", "U+0463", "U+0465", "U+0467", "U+0469", "U+046B",
      "U+046D", "U+046F", "U+0471", "U+0473", "U+0475", "U+0477", "U+0479",
      "U+047B", "U+047D", "U+047F", "ҁ", "ҋ", "ҍ", "ҏ", "ґ", "ғ", "ҕ", "җ",
      "ҙ", "қ", "ҝ", "ҟ", "ҡ", "ң", "ҥ", "ҧ", "ҩ", "ҫ", "ҭ", "ү", "ұ", "ҳ",
      "ҵ", "ҷ", "ҹ", "һ", "ҽ", "ҿ", "ӏ", "ӂ", "ӄ", "ӆ", "ӈ", "ӊ", "ӌ", "ӎ",
      "ӑ", "ӓ", "ӕ", "ӗ", "ә", "ӛ", "ӝ", "ӟ", "ӡ", "ӣ", "ӥ", "ӧ", "ө", "ӫ",
      "ӭ", "ӯ", "ӱ", "ӳ", "ӵ", "ӷ", "ӹ", "ӻ", "ӽ", "ӿ", "U+0501", "U+0503",
      "U+0505", "U+0507", "U+0509", "U+050B", "U+050D", "U+050F", "U+0511",
      "U+0513", "U+0515", "U+0517", "U+0519", "U+051B", "U+051D", "U+051F",
      "U+0521", "U+0523", "U+0525", "U+0527", "U+0529", "U+052B", "U+052D",
      "U+052F", "U+0561", "U+0562", "U+0563", "U+0564", "U+0565", "U+0566",
      "U+0567", "U+0568", "U+0569", "U+056A", "U+056B", "U+056C", "U+056D",
      "U+056E", "U+056F", "U+0570", "U+0571", "U+0572", "U+0573", "U+0574",
      "U+0575", "U+0576", "U+0577", "U+0578", "U+0579", "U+057A", "U+057B",
      "U+057C", "U+057D", "U+057E", "U+057F", "ր", "ց", "ւ", "փ", "ք", "օ",
      "ֆ", "U+2D00", "U+2D01", "U+2D02", "U+2D03", "U+2D04", "U+2D05",
      "U+2D06", "U+2D07", "U+2D08", "U+2D09", "U+2D0A", "U+2D0B", "U+2D0C",
      "U+2D0D", "U+2D0E", "U+2D0F", "U+2D10", "U+2D11", "U+2D12", "U+2D13",
      "U+2D14", "U+2D15", "U+2D16", "U+2D17", "U+2D18", "U+2D19", "U+2D1A",
      "U+2D1B", "U+2D1C", "U+2D1D", "U+2D1E", "U+2D1F", "U+2D20", "U+2D21",
      "U+2D22", "U+2D23", "U+2D24", "U+2D25", "U+2D27", "U+2D2D", "U+AB70",
      "U+AB71", "U+AB72", "U+AB73", "U+AB74", "U+AB75", "U+AB76", "U+AB77",
      "U+AB78", "U+AB79", "U+AB7A", "U+AB7B", "U+AB7C", "U+AB7D", "U+AB7E",
      "U+AB7F", "ꮀ", "ꮁ", "ꮂ", "ꮃ", "ꮄ", "ꮅ", "ꮆ", "ꮇ", "ꮈ", "ꮉ", "ꮊ", "ꮋ",
      "ꮌ", "ꮍ", "ꮎ", "ꮏ", "ꮐ", "ꮑ", "ꮒ", "ꮓ", "ꮔ", "ꮕ", "ꮖ", "ꮗ", "ꮘ", "ꮙ",
      "ꮚ", "ꮛ", "ꮜ", "ꮝ", "ꮞ", "ꮟ", "ꮠ", "ꮡ", "ꮢ", "ꮣ", "ꮤ", "ꮥ", "ꮦ", "ꮧ",
      "ꮨ", "ꮩ", "ꮪ", "ꮫ", "ꮬ", "ꮭ", "ꮮ", "ꮯ", "ꮰ", "ꮱ", "ꮲ", "ꮳ", "ꮴ", "ꮵ",
      "ꮶ", "ꮷ", "ꮸ", "ꮹ", "ꮺ", "ꮻ", "ꮼ", "ꮽ", "ꮾ", "ꮿ", "ᏸ", "ᏹ", "ᏺ", "ᏻ",
      "ᏼ", "ᏽ", "ა", "ბ", "გ", "დ", "ე", "ვ", "ზ", "თ", "ი", "კ", "ლ", "მ",
      "ნ", "ო", "პ", "ჟ", "რ", "ს", "ტ", "უ", "ფ", "ქ", "ღ", "ყ", "შ", "ჩ",
      "ც", "ძ", "წ", "ჭ", "ხ", "ჯ", "ჰ", "ჱ", "ჲ", "ჳ", "ჴ", "ჵ", "ჶ", "ჷ",
      "ჸ", "ჹ", "ჺ", "ჽ", "ჾ", "ჿ", "U+1E01", "U+1E03", "U+1E05", "U+1E07",
      "U+1E09", "U+1E0B", "U+1E0D", "U+1E0F", "U+1E11", "U+1E13", "U+1E15",
      "U+1E17", "U+1E19", "U+1E1B", "U+1E1D", "U+1E1F", "U+1E21", "U+1E23",
      "U+1E25", "U+1E27", "U+1E29", "U+1E2B", "U+1E2D", "U+1E2F", "U+1E31",
      "U+1E33", "U+1E35", "U+1E37", "U+1E39", "U+1E3B", "U+1E3D", "U+1E3F",
      "U+1E41", "U+1E43", "U+1E45", "U+1E47", "U+1E49", "U+1E4B", "U+1E4D",
      "U+1E4F", "U+1E51", "U+1E53", "U+1E55", "U+1E57", "U+1E59", "U+1E5B",
      "U+1E5D", "U+1E5F", "U+1E61", "U+1E63", "U+1E65", "U+1E67", "U+1E69",
      "U+1E6B", "U+1E6D", "U+1E6F", "U+1E71", "U+1E73", "U+1E75", "U+1E77",
      "U+1E79", "U+1E7B", "U+1E7D", "U+1E7F", "ẁ", "ẃ", "ẅ", "ẇ", "ẉ", "ẋ",
      "ẍ", "ẏ", "ẑ", "ẓ", "ẕ", "ß", "ạ", "ả", "ấ", "ầ", "ẩ", "ẫ", "ậ", "ắ",
      "ằ", "ẳ", "ẵ", "ặ", "ẹ", "ẻ", "ẽ", "ế", "ề", "ể", "ễ", "ệ", "ỉ", "ị",
      "ọ", "ỏ", "ố", "ồ", "ổ", "ỗ", "ộ", "ớ", "ờ", "ở", "ỡ", "ợ", "ụ", "ủ",
      "ứ", "ừ", "ử", "ữ", "ự", "ỳ", "ỵ", "ỷ", "ỹ", "ỻ", "ỽ", "ỿ", "U+1F00",
      "U+1F01", "U+1F02", "U+1F03", "U+1F04", "U+1F05", "U+1F06", "U+1F07",
      "U+1F10", "U+1F11", "U+1F12", "U+1F13", "U+1F14", "U+1F15", "U+1F20",
      "U+1F21", "U+1F22", "U+1F23", "U+1F24", "U+1F25", "U+1F26", "U+1F27",
      "U+1F30", "U+1F31", "U+1F32", "U+1F33", "U+1F34", "U+1F35", "U+1F36",
      "U+1F37", "U+1F40", "U+1F41", "U+1F42", "U+1F43", "U+1F44", "U+1F45",
      "U+1F51", "U+1F53", "U+1F55", "U+1F57", "U+1F60", "U+1F61", "U+1F62",
      "U+1F63", "U+1F64", "U+1F65", "U+1F66", "U+1F67", "ᾀ", "ᾁ", "ᾂ", "ᾃ",
      "ᾄ", "ᾅ", "ᾆ", "ᾇ", "ᾐ", "ᾑ", "ᾒ", "ᾓ", "ᾔ", "ᾕ", "ᾖ", "ᾗ", "ᾠ", "ᾡ",
      "ᾢ", "ᾣ", "ᾤ", "ᾥ", "ᾦ", "ᾧ", "ᾰ", "ᾱ", "U+1F70", "U+1F71", "ᾳ",
      "U+1F72", "U+1F73", "U+1F74", "U+1F75", "ῃ", "ῐ", "ῑ", "U+1F76",
      "U+1F77", "ῠ", "ῡ", "U+1F7A", "U+1F7B", "ῥ", "U+1F78", "U+1F79",
      "U+1F7C", "U+1F7D", "ῳ", "ω", "k", "å", "U+214E", "U+2170", "U+2171",
      "U+2172", "U+2173", "U+2174", "U+2175", "U+2176", "U+2177", "U+2178",
      "U+2179", "U+217A", "U+217B", "U+217C", "U+217D", "U+217E", "U+217F",
      "ↄ", "ⓐ", "ⓑ", "ⓒ", "ⓓ", "ⓔ", "ⓕ", "ⓖ", "ⓗ", "ⓘ", "ⓙ", "ⓚ", "ⓛ", "ⓜ",
      "ⓝ", "ⓞ", "ⓟ", "ⓠ", "ⓡ", "ⓢ", "ⓣ", "ⓤ", "ⓥ", "ⓦ", "ⓧ", "ⓨ", "ⓩ",
      "U+2C30", "U+2C31", "U+2C32", "U+2C33", "U+2C34", "U+2C35", "U+2C36",
      "U+2C37", "U+2C38", "U+2C39", "U+2C3A", "U+2C3B", "U+2C3C", "U+2C3D",
      "U+2C3E", "U+2C3F", "U+2C40", "U+2C41", "U+2C42", "U+2C43", "U+2C44",
      "U+2C45", "U+2C46", "U+2C47", "U+2C48", "U+2C49", "U+2C4A", "U+2C4B",
      "U+2C4C", "U+2C4D", "U+2C4E", "U+2C4F", "U+2C50", "U+2C51", "U+2C52",
      "U+2C53", "U+2C54", "U+2C55", "U+2C56", "U+2C57", "U+2C58", "U+2C59",
      "U+2C5A", "U+2C5B", "U+2C5C", "U+2C5D", "U+2C5E", "U+2C5F", "U+2C61",
      "U+026B", "U+1D7D", "U+027D", "U+2C68", "U+2C6A", "U+2C6C", "U+0251",
      "U+0271", "U+0250", "U+0252", "U+2C73", "U+2C76", "U+023F", "U+0240",
      "ⲁ", "ⲃ", "ⲅ", "ⲇ", "ⲉ", "ⲋ", "ⲍ", "ⲏ", "ⲑ", "ⲓ", "ⲕ", "ⲗ", "ⲙ", "ⲛ",
      "ⲝ", "ⲟ", "ⲡ", "ⲣ", "ⲥ", "ⲧ", "ⲩ", "ⲫ", "ⲭ", "ⲯ", "ⲱ", "ⲳ", "ⲵ", "ⲷ",
      "ⲹ", "ⲻ", "ⲽ", "ⲿ", "ⳁ", "ⳃ", "ⳅ", "ⳇ", "ⳉ", "ⳋ", "ⳍ", "ⳏ", "ⳑ", "ⳓ",
      "ⳕ", "ⳗ", "ⳙ", "ⳛ", "ⳝ", "ⳟ", "ⳡ", "ⳣ", "ⳬ", "ⳮ", "ⳳ", "U+A641",
      "U+A643", "U+A645", "U+A647", "U+A649", "U+A64B", "U+A64D", "U+A64F",
      "U+A651", "U+A653", "U+A655", "U+A657", "U+A659", "U+A65B", "U+A65D",
      "U+A65F", "U+A661", "U+A663", "U+A665", "U+A667", "U+A669", "U+A66B",
      "U+A66D", "ꚁ", "ꚃ", "ꚅ", "ꚇ", "ꚉ", "ꚋ", "ꚍ", "ꚏ", "ꚑ", "ꚓ", "ꚕ", "ꚗ",
      "ꚙ", "ꚛ", "U+A723", "U+A725", "U+A727", "U+A729", "U+A72B", "U+A72D",
      "U+A72F", "U+A733", "U+A735", "U+A737", "U+A739", "U+A73B", "U+A73D",
      "U+A73F", "U+A741", "U+A743", "U+A745", "U+A747", "U+A749", "U+A74B",
      "U+A74D", "U+A74F", "U+A751", "U+A753", "U+A755", "U+A757", "U+A759",
      "U+A75B", "U+A75D", "U+A75F", "U+A761", "U+A763", "U+A765", "U+A767",
      "U+A769", "U+A76B", "U+A76D", "U+A76F", "U+A77A", "U+A77C", "U+1D79",
      "U+A77F", "ꞁ", "ꞃ", "ꞅ", "ꞇ", "ꞌ", "U+0265", "ꞑ", "ꞓ", "ꞗ", "ꞙ", "ꞛ",
      "ꞝ", "ꞟ", "ꞡ", "ꞣ", "ꞥ", "ꞧ", "ꞩ", "U+0266", "U+025C", "U+0261",
      "U+026C", "U+026A", "ʞ", "ʇ", "ʝ", "U+AB53", "ꞵ", "ꞷ", "ꞹ", "ꞻ", "ꞽ",
      "ꞿ", "ꟁ", "ꟃ", "ꞔ", "ʂ", "ᶎ", "ꟈ", "ꟊ", "ꟑ", "ꟗ", "ꟙ", "ꟶ", "U+FF41",
      "U+FF42", "U+FF43", "U+FF44", "U+FF45", "U+FF46", "U+FF47", "U+FF48",
      "U+FF49", "U+FF4A", "U+FF4B", "U+FF4C", "U+FF4D", "U+FF4E", "U+FF4F",
      "U+FF50", "U+FF51", "U+FF52", "U+FF53", "U+FF54", "U+FF55", "U+FF56",
      "U+FF57", "U+FF58", "U+FF59", "U+FF5A", "U+10428", "U+10429", "U+1042A",
      "U+1042B", "U+1042C", "U+1042D", "U+1042E", "U+1042F", "U+10430",
      "U+10431", "U+10432", "U+10433", "U+10434", "U+10435", "U+10436",
      "U+10437", "U+10438", "U+10439", "U+1043A", "U+1043B", "U+1043C",
      "U+1043D", "U+1043E", "U+1043F", "U+10440", "U+10441", "U+10442",
      "U+10443", "U+10444", "U+10445", "U+10446", "U+10447", "U+10448",
      "U+10449", "U+1044A", "U+1044B", "U+1044C", "U+1044D", "U+1044E",
      "U+1044F", "U+104D8", "U+104D9", "U+104DA", "U+104DB", "U+104DC",
      "U+104DD", "U+104DE", "U+104DF", "U+104E0", "U+104E1", "U+104E2",
      "U+104E3", "U+104E4", "U+104E5", "U+104E6", "U+104E7", "U+104E8",
      "U+104E9", "U+104EA", "U+104EB", "U+104EC", "U+104ED", "U+104EE",
      "U+104EF", "U+104F0", "U+104F1", "U+104F2", "U+104F3", "U+104F4",
      "U+104F5", "U+104F6", "U+104F7", "U+104F8", "U+104F9", "U+104FA",
      "U+104FB", "U+10597", "U+10598", "U+10599", "U+1059A", "U+1059B",
      "U+1059C", "U+1059D", "U+1059E", "U+1059F", "U+105A0", "U+105A1",
      "U+105A3", "U+105A4", "U+105A5", "U+105A6", "U+105A7", "U+105A8",
      "U+105A9", "U+105AA", "U+105AB", "U+105AC", "U+105AD", "U+105AE",
      "U+105AF", "U+105B0", "U+105B1", "U+105B3", "U+105B4", "U+105B5",
      "U+105B6", "U+105B7", "U+105B8", "U+105B9", "U+105BB", "U+105BC",
      "U+10CC0", "U+10CC1", "U+10CC2", "U+10CC3", "U+10CC4", "U+10CC5",
      "U+10CC6", "U+10CC7", "U+10CC8", "U+10CC9", "U+10CCA", "U+10CCB",
      "U+10CCC", "U+10CCD", "U+10CCE", "U+10CCF", "U+10CD0", "U+10CD1",
      "U+10CD2", "U+10CD3", "U+10CD4", "U+10CD5", "U+10CD6", "U+10CD7",
      "U+10CD8", "U+10CD9", "U+10CDA", "U+10CDB", "U+10CDC", "U+10CDD",
      "U+10CDE", "U+10CDF", "U+10CE0", "U+10CE1", "U+10CE2", "U+10CE3",
      "U+10CE4", "U+10CE5", "U+10CE6", "U+10CE7", "U+10CE8", "U+10CE9",
      "U+10CEA", "U+10CEB", "U+10CEC", "U+10CED", "U+10CEE", "U+10CEF",
      "U+10CF0", "U+10CF1", "U+10CF2", "U+118C0", "U+118C1", "U+118C2",
      "U+118C3", "U+118C4", "U+118C5", "U+118C6", "U+118C7", "U+118C8",
      "U+118C9", "U+118CA", "U+118CB", "U+118CC", "U+118CD", "U+118CE",
      "U+118CF", "U+118D0", "U+118D1", "U+118D2", "U+118D3", "U+118D4",
      "U+118D5", "U+118D6", "U+118D7", "U+118D8", "U+118D9", "U+118DA",
      "U+118DB", "U+118DC", "U+118DD", "U+118DE", "U+118DF", "U+16E60",
      "U+16E61", "U+16E62", "U+16E63", "U+16E64", "U+16E65", "U+16E66",
      "U+16E67", "U+16E68", "U+16E69", "U+16E6A", "U+16E6B", "U+16E6C",
      "U+16E6D", "U+16E6E", "U+16E6F", "U+16E70", "U+16E71", "U+16E72",
      "U+16E73", "U+16E74", "U+16E75", "U+16E76", "U+16E77", "U+16E78",
      "U+16E79", "U+16E7A", "U+16E7B", "U+16E7C", "U+16E7D", "U+16E7E",
      "U+16E7F", "U+1E922", "U+1E923", "U+1E924", "U+1E925", "U+1E926",
      "U+1E927", "U+1E928", "U+1E929", "U+1E92A", "U+1E92B", "U+1E92C",
      "U+1E92D", "U+1E92E", "U+1E92F", "U+1E930", "U+1E931", "U+1E932",
      "U+1E933", "U+1E934", "U+1E935", "U+1E936", "U+1E937", "U+1E938",
      "U+1E939", "U+1E93A", "U+1E93B", "U+1E93C", "U+1E93D", "U+1E93E",
      "U+1E93F", "U+1E940", "U+1E941", "U+1E942", "U+1E943">>

\* c.lower() of the characters of UpperCase.
LowerMap ==
    [c \in {UpperCase[j] : j \in 1..Len(UpperCase)} |->
        LowerCase[CHOOSE j \in 1..Len(UpperCase) : UpperCase[j] = c]]

\* The characters lower() passes over when it looks for the letter before
\* and the letter after a capital sigma (the case-ignorable characters).
CaseIgnorable ==
    {"'", ".", ":", "^", "U+0060", "¨", "­", "¯", "´", "·", "¸", "ʰ", "ʱ",
     "ʲ", "ʳ", "ʴ", "ʵ", "ʶ", "ʷ", "ʸ", "ʹ", "ʺ", "ʻ", "ʼ", "ʽ", "ʾ", "ʿ",
     "ˀ", "ˁ", "˂", "˃", "˄", "˅", "ˆ", "ˇ", "ˈ", "ˉ", "ˊ", "ˋ", "ˌ", "ˍ",
     "ˎ", "ˏ", "ː", "ˑ", "˒", "˓", "˔", "˕", "˖", "˗", "˘", "˙", "˚", "˛",
     "˜", "˝", "˞", "˟", "ˠ", "ˡ", "ˢ", "ˣ", "ˤ", "˥", "˦", "˧", "˨", "˩",
     "˪", "˫", "ˬ", "˭", "ˮ", "˯", "˰", "˱", "˲", "˳", "˴", "˵", "˶", "˷",
     "˸", "˹", "˺", "˻", "˼", "˽", "˾", "˿", "U+0300", "U+0301", "U+0302",
     "U+0303", "U+0304", "U+0305", "U+0306", "U+0307", "U+0308", "U+0309",
     "U+030A", "U+030B", "U+030C", "U+030D", "U+030E", "U+030F", "U+0310",
     "U+0311", "U+0312", "U+0313", "U+0314", "U+0315", "U+0316", "U+0317",
     "U+0318", "U+0319", "U+031A", "U+031B", "U+031C", "U+031D", "U+031E",
     "U+031F", "U+0320", "U+0321", "U+0322", "U+0323", "U+0324", "U+0325",
     "U+0326", "U+0327", "U+0328", "U+0329", "U+032A", "U+032B", "U+032C",
     "U+032D", "U+032E", "U+032F", "U+0330", "U+0331", "U+0332", "U+0333",
     "U+0334", "U+0335", "U+0336", "U+0337", "U+0338", "U+0339", "U+033A",
     "U+033B", "U+033C", "U+033D", "U+033E", "U+033F", "U+0340", "U+0341",
     "U+0342", "U+0343", "U+0344", "U+0345", "U+0346", "U+0347", "U+0348",
     "U+0349", "U+034A", "U+034B", "U+034C", "U+034D", "U+034E", "U+034F",
     "U+0350", "U+0351", "U+0352", "U+0353", "U+0354", "U+0355", "U+0356",
     "U+0357", "U+0358", "U+0359", "U+035A", "U+035B", "U+035C", "U+035D",
     "U+035E", "U+035F", "U+0360", "U+0361", "U+0362", "U+0363", "U+0364",
     "U+0365", "U+0366", "U+0367", "U+0368", "U+0369", "U+036A", "U+036B",
     "U+036C", "U+036D", "U+036E", "U+036F", "U+0374", "U+0375", "U+037A",
     "΄", "΅", "·", "҃", "҄", "҅", "҆", "҇", "҈", "҉", "U+0559", "U+055F",
     "֑", "֒", "֓", "֔", "֕", "֖", "֗", "֘", "֙", "֚", "֛", "֜", "֝", "֞",
     "֟", "֠", "֡", "֢", "֣", "֤", "֥", "֦", "֧", "֨", "֩", "֪", "֫", "֬",
     "֭", "֮", "֯", "ְ", "ֱ", "ֲ", "ֳ", "ִ", "ֵ", "ֶ", "ַ", "ָ", "ֹ", "ֺ",
     "ֻ", "ּ", "ֽ", "ֿ", "ׁ", "ׂ", "ׄ", "ׅ", "ׇ", "״", "U+0600", "U+0601",
     "U+0602", "U+0603", "U+0604", "U+0605", "U+0610", "U+0611", "U+0612",
     "U+0613", "U+0614", "U+0615", "U+0616", "U+0617", "U+0618", "U+0619",
     "U+061A", "U+061C", "U+0640", "U+064B", "U+064C", "U+064D", "U+064E",
     "U+064F", "U+0650", "U+0651", "U+0652", "U+0653", "U+0654", "U+0655",
     "U+0656", "U+0657", "U+0658", "U+0659", "U+065A", "U+065B", "U+065C",
     "U+065D", "U+065E", "U+065F", "U+0670", "ۖ", "ۗ", "ۘ", "ۙ", "ۚ", "ۛ",
     "ۜ", "۝", "۟", "۠", "ۡ", "ۢ", "ۣ", "ۤ", "ۥ", "ۦ", "ۧ", "ۨ", "۪", "۫",
     "۬", "ۭ", "U+070F", "U+0711", "U+0730", "U+0731", "U+0732", "U+0733",
     "U+0734", "U+0735", "U+0736", "U+0737", "U+0738", "U+0739", "U+073A",
     "U+073B", "U+073C", "U+073D", "U+073E", "U+073F", "U+0740", "U+0741",
     "U+0742", "U+0743", "U+0744", "U+0745", "U+0746", "U+0747", "U+0748",
     "U+0749", "U+074A", "ަ", "ާ", "ި", "ީ", "ު", "ޫ", "ެ", "ޭ", "ޮ", "ޯ",
     "ް", "߫", "߬", "߭", "߮", "߯", "߰", "߱", "߲", "߳", "ߴ", "ߵ", "ߺ", "߽",
     "U+0816", "U+0817", "U+0818", "U+0819", "U+081A", "U+081B", "U+081C",
     "U+081D", "U+081E", "U+081F", "U+0820", "U+0821", "U+0822", "U+0823",
     "U+0824", "U+0825", "U+0826", "U+0827", "U+0828", "U+0829", "U+082A",
     "U+082B", "U+082C", "U+082D", "U+0859", "U+085A", "U+085B", "࢈", "࢐",
     "࢑", "࢘", "࢙", "࢚", "࢛", "࢜", "࢝", "࢞", "࢟", "ࣉ", "࣊", "࣋", "࣌", "࣍",
     "࣎", "࣏", "࣐", "࣑", "࣒", "࣓", "ࣔ", "ࣕ", "ࣖ", "ࣗ", "ࣘ", "ࣙ", "ࣚ", "ࣛ",
     "ࣜ", "ࣝ", "ࣞ", "ࣟ", "࣠", "࣡", "࣢", "ࣣ", "ࣤ", "ࣥ", "ࣦ", "ࣧ", "ࣨ", "ࣩ",
     "࣪", "࣫", "࣬", "࣭", "࣮", "࣯", "ࣰ", "ࣱ", "ࣲ", "ࣳ", "ࣴ", "ࣵ", "ࣶ", "ࣷ",
     "ࣸ", "ࣹ", "ࣺ", "ࣻ", "ࣼ", "ࣽ", "ࣾ", "ࣿ", "U+0900", "U+0901", "U+0902",
     "U+093A", "U+093C", "U+0941", "U+0942", "U+0943", "U+0944", "U+0945",
     "U+0946", "U+0947", "U+0948", "U+094D", "U+0951", "U+0952", "U+0953",
     "U+0954", "U+0955", "U+0956", "U+0957", "U+0962", "U+0963", "U+0971",
     "ঁ", "়", "ু", "ূ", "ৃ", "ৄ", "্", "ৢ", "ৣ", "৾", "U+0A01", "U+0A02",
     "U+0A3C", "U+0A41", "U+0A42", "U+0A47", "U+0A48", "U+0A4B", "U+0A4C",
     "U+0A4D", "U+0A51", "U+0A70", "U+0A71", "U+0A75", "ઁ", "ં", "઼", "ુ",
     "ૂ", "ૃ", "ૄ", "ૅ", "ે", "ૈ", "્", "ૢ", "ૣ", "ૺ", "ૻ", "ૼ", "૽", "૾",
     "૿", "U+0B01", "U+0B3C", "U+0B3F", "U+0B41", "U+0B42", "U+0B43",
     "U+0B44", "U+0B4D", "U+0B55", "U+0B56", "U+0B62", "U+0B63", "ஂ", "ீ",
     "்", "U+0C00", "U+0C04", "U+0C3C", "U+0C3E", "U+0C3F", "U+0C40",
     "U+0C46", "U+0C47", "U+0C48", "U+0C4A", "U+0C4B", "U+0C4C", "U+0C4D",
     "U+0C55", "U+0C56", "U+0C62", "U+0C63", "ಁ", "಼", "ಿ", "ೆ", "ೌ", "್",
     "ೢ", "ೣ", "U+0D00", "U+0D01", "U+0D3B", "U+0D3C", "U+0D41", "U+0D42",
     "U+0D43", "U+0D44", "U+0D4D", "U+0D62", "U+0D63", "ඁ", "්", "ි", "ී",
     "ු", "ූ", "U+0E31", "U+0E34", "U+0E35", "U+0E36", "U+0E37", "U+0E38",
     "U+0E39", "U+0E3A", "U+0E46", "U+0E47", "U+0E48", "U+0E49", "U+0E4A",
     "U+0E4B", "U+0E4C", "U+0E4D", "U+0E4E", "ັ", "ິ", "ີ", "ຶ", "ື", "ຸ",
     "ູ", "຺", "ົ", "ຼ", "ໆ", "່", "້", "໊", "໋", "໌", "ໍ", "U+0F18",
     "U+0F19", "U+0F35", "U+0F37", "U+0F39", "U+0F71", "U+0F72", "U+0F73",
     "U+0F74", "U+0F75", "U+0F76", "U+0F77", "U+0F78", "U+0F79", "U+0F7A",
     "U+0F7B", "U+0F7C", "U+0F7D", "U+0F7E", "ྀ", "ཱྀ", "ྂ", "ྃ", "྄", "྆",
     "྇", "ྍ", "ྎ", "ྏ", "ྐ", "ྑ", "ྒ", "ྒྷ", "ྔ", "ྕ", "ྖ", "ྗ", "ྙ", "ྚ",
     "ྛ", "ྜ", "ྜྷ", "ྞ", "ྟ", "ྠ", "ྡ", "ྡྷ", "ྣ", "ྤ", "ྥ", "ྦ", "ྦྷ", "ྨ",
     "ྩ", "ྪ", "ྫ", "ྫྷ", "ྭ", "ྮ", "ྯ", "ྰ", "ྱ", "ྲ", "ླ", "ྴ", "ྵ", "ྶ",
     "ྷ", "ྸ", "ྐྵ", "ྺ", "ྻ", "ྼ", "࿆", "U+102D", "U+102E", "U+102F",
     "U+1030", "U+1032", "U+1033", "U+1034", "U+1035", "U+1036", "U+1037",
     "U+1039", "U+103A", "U+103D", "U+103E", "U+1058", "U+1059", "U+105E",
     "U+105F", "U+1060", "U+1071", "U+1072", "U+1073", "U+1074", "ႂ", "ႅ",
     "ႆ", "ႍ", "ႝ", "ჼ", "U+135D", "U+135E", "U+135F", "U+1712", "U+1713",
     "U+1714", "U+1732", "U+1733", "U+1752", "U+1753", "U+1772", "U+1773",
     "឴", "឵", "ិ", "ី", "ឹ", "ឺ", "ុ", "ូ", "ួ", "ំ", "៉", "៊", "់", "៌",
     "៍", "៎", "៏", "័", "៑", "្", "៓", "ៗ", "៝", "U+180B", "U+180C",
     "U+180D", "U+180E", "U+180F", "U+1843", "ᢅ", "ᢆ", "ᢩ", "U+1920",
     "U+1921", "U+1922", "U+1927", "U+1928", "U+1932", "U+1939", "U+193A",
     "U+193B", "U+1A17", "U+1A18", "U+1A1B", "U+1A56", "U+1A58", "U+1A59",
     "U+1A5A", "U+1A5B", "U+1A5C", "U+1A5D", "U+1A5E", "U+1A60", "U+1A62",
     "U+1A65", "U+1A66", "U+1A67", "U+1A68", "U+1A69", "U+1A6A", "U+1A6B",
     "U+1A6C", "U+1A73", "U+1A74", "U+1A75", "U+1A76", "U+1A77", "U+1A78",
     "U+1A79", "U+1A7A", "U+1A7B", "U+1A7C", "U+1A7F", "ᪧ", "᪰", "᪱", "᪲",
     "᪳", "᪴", "᪵", "᪶", "᪷", "᪸", "᪹", "᪺", "᪻", "᪼", "᪽", "᪾", "ᪿ", "ᫀ",
     "᫁", "᫂", "᫃", "᫄", "᫅", "᫆", "᫇", "᫈", "᫉", "᫊", "᫋", "ᫌ", "ᫍ", "ᫎ",
     "U+1B00", "U+1B01", "U+1B02", "U+1B03", "U+1B34", "U+1B36", "U+1B37",
     "U+1B38", "U+1B39", "U+1B3A", "U+1B3C", "U+1B42", "U+1B6B", "U+1B6C",
     "U+1B6D", "U+1B6E", "U+1B6F", "U+1B70", "U+1B71", "U+1B72", "U+1B73",
     "ᮀ", "ᮁ", "ᮢ", "ᮣ", "ᮤ", "ᮥ", "ᮨ", "ᮩ", "᮫", "ᮬ", "ᮭ", "᯦", "ᯨ", "ᯩ",
     "ᯭ", "ᯯ", "ᯰ", "ᯱ", "U+1C2C", "U+1C2D", "U+1C2E", "U+1C2F", "U+1C30",
     "U+1C31", "U+1C32", "U+1C33", "U+1C36", "U+1C37", "U+1C78", "U+1C79",
     "U+1C7A", "U+1C7B", "U+1C7C", "U+1C7D", "᳐", "᳑", "᳒", "᳔", "᳕", "᳖",
     "᳗", "᳘", "᳙", "᳚", "᳛", "᳜", "᳝", "᳞", "᳟", "᳠", "᳢", "᳣", "᳤", "᳥",
     "᳦", "᳧", "᳨", "᳭", "᳴", "᳸", "᳹", "U+1D2C", "U+1D2D", "U+1D2E",
     "U+1D2F", "U+1D30", "U+1D31", "U+1D32", "U+1D33", "U+1D34", "U+1D35",
     "U+1D36", "U+1D37", "U+1D38", "U+1D39", "U+1D3A", "U+1D3B", "U+1D3C",
     "U+1D3D", "U+1D3E", "U+1D3F", "U+1D40", "U+1D41", "U+1D42", "U+1D43",
     "U+1D44", "U+1D45", "U+1D46", "U+1D47", "U+1D48", "U+1D49", "U+1D4A",
     "U+1D4B", "U+1D4C", "U+1D4D", "U+1D4E", "U+1D4F", "U+1D50", "U+1D51",
     "U+1D52", "U+1D53", "U+1D54", "U+1D55", "U+1D56", "U+1D57", "U+1D58",
     "U+1D59", "U+1D5A", "U+1D5B", "U+1D5C", "U+1D5D", "U+1D5E", "U+1D5F",
     "U+1D60", "U+1D61", "U+1D62", "U+1D63", "U+1D64", "U+1D65", "U+1D66",
     "U+1D67", "U+1D68", "U+1D69", "U+1D6A", "U+1D78", "ᶛ", "ᶜ", "ᶝ", "ᶞ",
     "ᶟ", "ᶠ", "ᶡ", "ᶢ", "ᶣ", "ᶤ", "ᶥ", "ᶦ", "ᶧ", "ᶨ", "ᶩ", "ᶪ", "ᶫ", "ᶬ",
     "ᶭ", "ᶮ", "ᶯ", "ᶰ", "ᶱ", "ᶲ", "ᶳ", "ᶴ", "ᶵ", "ᶶ", "ᶷ", "ᶸ", "ᶹ", "ᶺ",
     "ᶻ", "ᶼ", "ᶽ", "ᶾ", "ᶿ", "᷀", "᷁", "᷂", "᷃", "᷄", "᷅", "᷆", "᷇", "᷈",
     "᷉", "᷊", "᷋", "᷌", "᷍", "᷎", "᷏", "᷐", "᷑", "᷒", "ᷓ", "ᷔ", "ᷕ", "ᷖ",
     "ᷗ", "ᷘ", "ᷙ", "ᷚ", "ᷛ", "ᷜ", "ᷝ", "ᷞ", "ᷟ", "ᷠ", "ᷡ", "ᷢ", "ᷣ", "ᷤ",
     "ᷥ", "ᷦ", "ᷧ", "ᷨ", "ᷩ", "ᷪ", "ᷫ", "ᷬ", "ᷭ", "ᷮ", "ᷯ", "ᷰ", "ᷱ", "ᷲ",
     "ᷳ", "ᷴ", "᷵", "᷶", "᷷", "᷸", "᷹", "᷺", "᷻", "᷼", "᷽", "᷾", "᷿", "᾽",
     "᾿", "῀", "῁", "῍", "῎", "῏", "῝", "῞", "῟", "῭", "΅", "`", "´", "῾",
     "U+200B", "U+200C", "U+200D", "U+200E", "U+200F", "U+2018", "U+2019",
     "U+2024", "U+2027", "U+202A", "U+202B", "U+202C", "U+202D", "U+202E",
     "U+2060", "U+2061", "U+2062", "U+2063", "U+2064", "U+2066", "U+2067",
     "U+2068", "U+2069", "U+206A", "U+206B", "U+206C", "U+206D", "U+206E",
     "U+206F", "U+2071", "U+207F", "ₐ", "ₑ", "ₒ", "ₓ", "ₔ", "ₕ", "ₖ", "ₗ",
     "ₘ", "ₙ", "ₚ", "ₛ", "ₜ", "⃐", "⃑", "⃒", "⃓", "⃔", "⃕", "⃖", "⃗", "⃘",
     "⃙", "⃚", "⃛", "⃜", "⃝", "⃞", "⃟", "⃠", "⃡", "⃢", "⃣", "⃤", "⃥", "⃦",
     "⃧", "⃨", "⃩", "⃪", "⃫", "⃬", "⃭", "⃮", "⃯", "⃰", "U+2C7C", "U+2C7D",
     "⳯", "⳰", "⳱", "U+2D6F", "U+2D7F", "ⷠ", "ⷡ", "ⷢ", "ⷣ", "ⷤ", "ⷥ", "ⷦ",
     "ⷧ", "ⷨ", "ⷩ", "ⷪ", "ⷫ", "ⷬ", "ⷭ", "ⷮ", "ⷯ", "ⷰ", "ⷱ", "ⷲ", "ⷳ", "ⷴ",
     "ⷵ", "ⷶ", "ⷷ", "ⷸ", "ⷹ", "ⷺ", "ⷻ", "ⷼ", "ⷽ", "ⷾ", "ⷿ", "U+2E2F",
     "U+3005", "U+302A", "U+302B", "U+302C", "U+302D", "U+3031", "U+3032",
     "U+3033", "U+3034", "U+3035", "U+303B", "゙", "゚", "゛", "゜", "ゝ", "ゞ",
     "ー", "ヽ", "ヾ", "U+A015", "ꓸ", "ꓹ", "ꓺ", "ꓻ", "ꓼ", "ꓽ", "U+A60C",
     "U+A66F", "U+A670", "U+A671", "U+A672", "U+A674", "U+A675", "U+A676",
     "U+A677", "U+A678", "U+A679", "U+A67A", "U+A67B", "U+A67C", "U+A67D",
     "U+A67F", "ꚜ", "ꚝ", "ꚞ", "ꚟ", "꛰", "꛱", "U+A700", "U+A701", "U+A702",
     "U+A703", "U+A704", "U+A705", "U+A706", "U+A707", "U+A708", "U+A709",
     "U+A70A", "U+A70B", "U+A70C", "U+A70D", "U+A70E", "U+A70F", "U+A710",
     "U+A711", "U+A712", "U+A713", "U+A714", "U+A715", "U+A716", "U+A717",
     "U+A718", "U+A719", "U+A71A", "U+A71B", "U+A71C", "U+A71D", "U+A71E",
     "U+A71F", "U+A720", "U+A721", "U+A770", "ꞈ", "꞉", "꞊", "ꟲ", "ꟳ", "ꟴ",
     "ꟸ", "ꟹ", "U+A802", "U+A806", "U+A80B", "U+A825", "U+A826", "U+A82C",
     "꣄", "ꣅ", "꣠", "꣡", "꣢", "꣣", "꣤", "꣥", "꣦", "꣧", "꣨", "꣩", "꣪", "꣫",
     "꣬", "꣭", "꣮", "꣯", "꣰", "꣱", "ꣿ", "U+A926", "U+A927", "U+A928",
     "U+A929", "U+A92A", "U+A92B", "U+A92C", "U+A92D", "U+A947", "U+A948",
     "U+A949", "U+A94A", "U+A94B", "U+A94C", "U+A94D", "U+A94E", "U+A94F",
     "U+A950", "U+A951", "ꦀ", "ꦁ", "ꦂ", "꦳", "ꦶ", "ꦷ", "ꦸ", "ꦹ", "ꦼ", "ꦽ",
     "ꧏ", "ꧥ", "ꧦ", "U+AA29", "U+AA2A", "U+AA2B", "U+AA2C", "U+AA2D",
     "U+AA2E", "U+AA31", "U+AA32", "U+AA35", "U+AA36", "U+AA43", "U+AA4C",
     "U+AA70", "U+AA7C", "ꪰ", "ꪲ", "ꪳ", "ꪴ", "ꪷ", "ꪸ", "ꪾ", "꪿", "꫁", "ꫝ",
     "ꫬ", "ꫭ", "ꫳ", "ꫴ", "꫶", "U+AB5B", "U+AB5C", "U+AB5D", "U+AB5E",
     "U+AB5F", "U+AB69", "U+AB6A", "U+AB6B", "ꯥ", "ꯨ", "꯭", "U+FB1E", "﮲",
     "﮳", "﮴", "﮵", "﮶", "﮷", "﮸", "﮹", "﮺", "﮻", "﮼", "﮽", "﮾", "﮿", "﯀",
     "﯁", "﯂", "U+FE00", "U+FE01", "U+FE02", "U+FE03", "U+FE04", "U+FE05",
     "U+FE06", "U+FE07", "U+FE08", "U+FE09", "U+FE0A", "U+FE0B", "U+FE0C",
     "U+FE0D", "U+FE0E", "U+FE0F", "U+FE13", "U+FE20", "U+FE21", "U+FE22",
     "U+FE23", "U+FE24", "U+FE25", "U+FE26", "U+FE27", "U+FE28", "U+FE29",
     "U+FE2A", "U+FE2B", "U+FE2C", "U+FE2D", "U+FE2E", "U+FE2F", "U+FE52",
     "U+FE55", "﻿", "U+FF07", "U+FF0E", "U+FF1A", "U+FF3E", "U+FF40",
     "U+FF70", "ﾞ", "ﾟ", "￣", "￹", "￺", "￻", "U+101FD", "U+102E0", "U+10376",
     "U+10377", "U+10378", "U+10379", "U+1037A", "U+10780", "U+10781",
     "U+10782", "U+10783", "U+10784", "U+10785", "U+10787", "U+10788",
     "U+10789", "U+1078A", "U+1078B", "U+1078C", "U+1078D", "U+1078E",
     "U+1078F", "U+10790", "U+10791", "U+10792", "U+10793", "U+10794",
     "U+10795", "U+10796", "U+10797", "U+10798", "U+10799", "U+1079A",
     "U+1079B", "U+1079C", "U+1079D", "U+1079E", "U+1079F", "U+107A0",
     "U+107A1", "U+107A2", "U+107A3", "U+107A4", "U+107A5", "U+107A6",
     "U+107A7", "U+107A8", "U+107A9", "U+107AA", "U+107AB", "U+107AC",
     "U+107AD", "U+107AE", "U+107AF", "U+107B0", "U+107B2", "U+107B3",
     "U+107B4", "U+107B5", "U+107B6", "U+107B7", "U+107B8", "U+107B9",
     "U+107BA", "U+10A01", "U+10A02", "U+10A03", "U+10A05", "U+10A06",
     "U+10A0C", "U+10A0D", "U+10A0E", "U+10A0F", "U+10A38", "U+10A39",
     "U+10A3A", "U+10A3F", "U+10AE5", "U+10AE6", "U+10D24", "U+10D25",
     "U+10D26", "U+10D27", "U+10EAB", "U+10EAC", "U+10F46", "U+10F47",
     "U+10F48", "U+10F49", "U+10F4A", "U+10F4B", "U+10F4C", "U+10F4D",
     "U+10F4E", "U+10F4F", "U+10F50", "U+10F82", "U+10F83", "U+10F84",
     "U+10F85", "U+11001", "U+11038", "U+11039", "U+1103A", "U+1103B",
     "U+1103C", "U+1103D", "U+1103E", "U+1103F", "U+11040", "U+11041",
     "U+11042", "U+11043", "U+11044", "U+11045", "U+11046", "U+11070",
     "U+11073", "U+11074", "U+1107F", "U+11080", "U+11081", "U+110B3",
     "U+110B4", "U+110B5", "U+110B6", "U+110B9", "U+110BA", "U+110BD",
     "U+110C2", "U+110CD", "U+11100", "U+11101", "U+11102", "U+11127",
     "U+11128", "U+11129", "U+1112A", "U+1112B", "U+1112D", "U+1112E",
     "U+1112F", "U+11130", "U+11131", "U+11132", "U+11133", "U+11134",
     "U+11173", "U+11180", "U+11181", "U+111B6", "U+111B7", "U+111B8",
     "U+111B9", "U+111BA", "U+111BB", "U+111BC", "U+111BD", "U+111BE",
     "U+111C9", "U+111CA", "U+111CB", "U+111CC", "U+111CF", "U+1122F",
     "U+11230", "U+11231", "U+11234", "U+11236", "U+11237", "U+1123E",
     "U+112DF", "U+112E3", "U+112E4", "U+112E5", "U+112E6", "U+112E7",
     "U+112E8", "U+112E9", "U+112EA", "U+11300", "U+11301", "U+1133B",
     "U+1133C", "U+11340", "U+11366", "U+11367", "U+11368", "U+11369",
     "U+1136A", "U+1136B", "U+1136C", "U+11370", "U+11371", "U+11372",
     "U+11373", "U+11374", "U+11438", "U+11439", "U+1143A", "U+1143B",
     "U+1143C", "U+1143D", "U+1143E", "U+1143F", "U+11442", "U+11443",
     "U+11444", "U+11446", "U+1145E", "U+114B3", "U+114B4", "U+114B5",
     "U+114B6", "U+114B7", "U+114B8", "U+114BA", "U+114BF", "U+114C0",
     "U+114C2", "U+114C3", "U+115B2", "U+115B3", "U+115B4", "U+115B5",
     "U+115BC", "U+115BD", "U+115BF", "U+115C0", "U+115DC", "U+115DD",
     "U+11633", "U+11634", "U+11635", "U+11636", "U+11637", "U+11638",
     "U+11639", "U+1163A", "U+1163D", "U+1163F", "U+11640", "U+116AB",
     "U+116AD", "U+116B0", "U+116B1", "U+116B2", "U+116B3", "U+116B4",
     "U+116B5", "U+116B7", "U+1171D", "U+1171E", "U+1171F", "U+11722",
     "U+11723", "U+11724", "U+11725", "U+11727", "U+11728", "U+11729",
     "U+1172A", "U+1172B", "U+1182F", "U+11830", "U+11831", "U+11832",
     "U+11833", "U+11834", "U+11835", "U+11836", "U+11837", "U+11839",
     "U+1183A", "U+1193B", "U+1193C", "U+1193E", "U+11943", "U+119D4",
     "U+119D5", "U+119D6", "U+119D7", "U+119DA", "U+119DB", "U+119E0",
     "U+11A01", "U+11A02", "U+11A03", "U+11A04", "U+11A05", "U+11A06",
     "U+11A07", "U+11A08", "U+11A09", "U+11A0A", "U+11A33", "U+11A34",
     "U+11A35", "U+11A36", "U+11A37", "U+11A38", "U+11A3B", "U+11A3C",
     "U+11A3D", "U+11A3E", "U+11A47", "U+11A51", "U+11A52", "U+11A53",
     "U+11A54", "U+11A55", "U+11A56", "U+11A59", "U+11A5A", "U+11A5B",
     "U+11A8A", "U+11A8B", "U+11A8C", "U+11A8D", "U+11A8E", "U+11A8F",
     "U+11A90", "U+11A91", "U+11A92", "U+11A93", "U+11A94", "U+11A95",
     "U+11A96", "U+11A98", "U+11A99", "U+11C30", "U+11C31", "U+11C32",
     "U+11C33", "U+11C34", "U+11C35", "U+11C36", "U+11C38", "U+11C39",
     "U+11C3A", "U+11C3B", "U+11C3C", "U+11C3D", "U+11C3F", "U+11C92",
     "U+11C93", "U+11C94", "U+11C95", "U+11C96", "U+11C97", "U+11C98",
     "U+11C99", "U+11C9A", "U+11C9B", "U+11C9C", "U+11C9D", "U+11C9E",
     "U+11C9F", "U+11CA0", "U+11CA1", "U+11CA2", "U+11CA3", "U+11CA4",
     "U+11CA5", "U+11CA6", "U+11CA7", "U+11CAA", "U+11CAB", "U+11CAC",
     "U+11CAD", "U+11CAE", "U+11CAF", "U+11CB0", "U+11CB2", "U+11CB3",
     "U+11CB5", "U+11CB6", "U+11D31", "U+11D32", "U+11D33", "U+11D34",
     "U+11D35", "U+11D36", "U+11D3A", "U+11D3C", "U+11D3D", "U+11D3F",
     "U+11D40", "U+11D41", "U+11D42", "U+11D43", "U+11D44", "U+11D45",
     "U+11D47", "U+11D90", "U+11D91", "U+11D95", "U+11D97", "U+11EF3",
     "U+11EF4", "U+13430", "U+13431", "U+13432", "U+13433", "U+13434",
     "U+13435", "U+13436", "U+13437", "U+13438", "U+16AF0", "U+16AF1",
     "U+16AF2", "U+16AF3", "U+16AF4", "U+16B30", "U+16B31", "U+16B32",
     "U+16B33", "U+16B34", "U+16B35", "U+16B36", "U+16B40", "U+16B41",
     "U+16B42", "U+16B43", "U+16F4F", "U+16F8F", "U+16F90", "U+16F91",
     "U+16F92", "U+16F93", "U+16F94", "U+16F95", "U+16F96", "U+16F97",
     "U+16F98", "U+16F99", "U+16F9A", "U+16F9B", "U+16F9C", "U+16F9D",
     "U+16F9E", "U+16F9F", "U+16FE0", "U+16FE1", "U+16FE3", "U+16FE4",
     "U+1AFF0", "U+1AFF1", "U+1AFF2", "U+1AFF3", "U+1AFF5", "U+1AFF6",
     "U+1AFF7", "U+1AFF8", "U+1AFF9", "U+1AFFA", "U+1AFFB", "U+1AFFD",
     "U+1AFFE", "U+1BC9D", "U+1BC9E", "U+1BCA0", "U+1BCA1", "U+1BCA2",
     "U+1BCA3", "U+1CF00", "U+1CF01", "U+1CF02", "U+1CF03", "U+1CF04",
     "U+1CF05", "U+1CF06", "U+1CF07", "U+1CF08", "U+1CF09", "U+1CF0A",
     "U+1CF0B", "U+1CF0C", "U+1CF0D", "U+1CF0E", "U+1CF0F", "U+1CF10",
     "U+1CF11", "U+1CF12", "U+1CF13", "U+1CF14", "U+1CF15", "U+1CF16",
     "U+1CF17", "U+1CF18", "U+1CF19", "U+1CF1A", "U+1CF1B", "U+1CF1C",
     "U+1CF1D", "U+1CF1E", "U+1CF1F", "U+1CF20", "U+1CF21", "U+1CF22",
     "U+1CF23", "U+1CF24", "U+1CF25", "U+1CF26", "U+1CF27", "U+1CF28",
     "U+1CF29", "U+1CF2A", "U+1CF2B", "U+1CF2C", "U+1CF2D", "U+1CF30",
     "U+1CF31", "U+1CF32", "U+1CF33", "U+1CF34", "U+1CF35", "U+1CF36",
     "U+1CF37", "U+1CF38", "U+1CF39", "U+1CF3A", "U+1CF3B", "U+1CF3C",
     "U+1CF3D", "U+1CF3E", "U+1CF3F", "U+1CF40", "U+1CF41", "U+1CF42",
     "U+1CF43", "U+1CF44", "U+1CF45", "U+1CF46", "U+1D167", "U+1D168",
     "U+1D169", "U+1D173", "U+1D174", "U+1D175", "U+1D176", "U+1D177",
     "U+1D178", "U+1D179", "U+1D17A", "U+1D17B", "U+1D17C", "U+1D17D",
     "U+1D17E", "U+1D17F", "U+1D180", "U+1D181", "U+1D182", "U+1D185",
     "U+1D186", "U+1D187", "U+1D188", "U+1D189", "U+1D18A", "U+1D18B",
     "U+1D1AA", "U+1D1AB", "U+1D1AC", "U+1D1AD", "U+1D242", "U+1D243",
     "U+1D244", "U+1DA00", "U+1DA01", "U+1DA02", "U+1DA03", "U+1DA04",
     "U+1DA05", "U+1DA06", "U+1DA07", "U+1DA08", "U+1DA09", "U+1DA0A",
     "U+1DA0B", "U+1DA0C", "U+1DA0D", "U+1DA0E", "U+1DA0F", "U+1DA10",
     "U+1DA11", "U+1DA12", "U+1DA13", "U+1DA14", "U+1DA15", "U+1DA16",
     "U+1DA17", "U+1DA18", "U+1DA19", "U+1DA1A", "U+1DA1B", "U+1DA1C",
     "U+1DA1D", "U+1DA1E", "U+1DA1F", "U+1DA20", "U+1DA21", "U+1DA22",
     "U+1DA23", "U+1DA24", "U+1DA25", "U+1DA26", "U+1DA27", "U+1DA28",
     "U+1DA29", "U+1DA2A", "U+1DA2B", "U+1DA2C", "U+1DA2D", "U+1DA2E",
     "U+1DA2F", "U+1DA30", "U+1DA31", "U+1DA32", "U+1DA33", "U+1DA34",
     "U+1DA35", "U+1DA36", "U+1DA3B", "U+1DA3C", "U+1DA3D", "U+1DA3E",
     "U+1DA3F", "U+1DA40", "U+1DA41", "U+1DA42", "U+1DA43", "U+1DA44",
     "U+1DA45", "U+1DA46", "U+1DA47", "U+1DA48", "U+1DA49", "U+1DA4A",
     "U+1DA4B", "U+1DA4C", "U+1DA4D", "U+1DA4E", "U+1DA4F", "U+1DA50",
     "U+1DA51", "U+1DA52", "U+1DA53", "U+1DA54", "U+1DA55", "U+1DA56",
     "U+1DA57", "U+1DA58", "U+1DA59", "U+1DA5A", "U+1DA5B", "U+1DA5C",
     "U+1DA5D", "U+1DA5E", "U+1DA5F", "U+1DA60", "U+1DA61", "U+1DA62",
     "U+1DA63", "U+1DA64", "U+1DA65", "U+1DA66", "U+1DA67", "U+1DA68",
     "U+1DA69", "U+1DA6A", "U+1DA6B", "U+1DA6C", "U+1DA75", "U+1DA84",
     "U+1DA9B", "U+1DA9C", "U+1DA9D", "U+1DA9E", "U+1DA9F", "U+1DAA1",
     "U+1DAA2", "U+1DAA3", "U+1DAA4", "U+1DAA5", "U+1DAA6", "U+1DAA7",
     "U+1DAA8", "U+1DAA9", "U+1DAAA", "U+1DAAB", "U+1DAAC", "U+1DAAD",
     "U+1DAAE", "U+1DAAF", "U+1E000", "U+1E001", "U+1E002", "U+1E003",
     "U+1E004", "U+1E005", "U+1E006", "U+1E008", "U+1E009", "U+1E00A",
     "U+1E00B", "U+1E00C", "U+1E00D", "U+1E00E", "U+1E00F", "U+1E010",
     "U+1E011", "U+1E012", "U+1E013", "U+1E014", "U+1E015", "U+1E016",
     "U+1E017", "U+1E018", "U+1E01B", "U+1E01C", "U+1E01D", "U+1E01E",
     "U+1E01F", "U+1E020", "U+1E021", "U+1E023", "U+1E024", "U+1E026",
     "U+1E027", "U+1E028", "U+1E029", "U+1E02A", "U+1E130", "U+1E131",
     "U+1E132", "U+1E133", "U+1E134", "U+1E135", "U+1E136", "U+1E137",
     "U+1E138", "U+1E139", "U+1E13A", "U+1E13B", "U+1E13C", "U+1E13D",
     "U+1E2AE", "U+1E2EC", "U+1E2ED", "U+1E2EE", "U+1E2EF", "U+1E8D0",
     "U+1E8D1", "U+1E8D2", "U+1E8D3", "U+1E8D4", "U+1E8D5", "U+1E8D6",
     "U+1E944", "U+1E945", "U+1E946", "U+1E947", "U+1E948", "U+1E949",
     "U+1E94A", "U+1E94B", "U+1F3FB", "U+1F3FC", "U+1F3FD", "U+1F3FE",
     "U+1F3FF", "U+E0001", "U+E0020", "U+E0021", "U+E0022", "U+E0023",
     "U+E0024", "U+E0025", "U+E0026", "U+E0027", "U+E0028", "U+E0029",
     "U+E002A", "U+E002B", "U+E002C", "U+E002D", "U+E002E", "U+E002F",
     "U+E0030", "U+E0031", "U+E0032", "U+E0033", "U+E0034", "U+E0035",
     "U+E0036", "U+E0037", "U+E0038", "U+E0039", "U+E003A", "U+E003B",
     "U+E003C", "U+E003D", "U+E003E", "U+E003F", "U+E0040", "U+E0041",
     "U+E0042", "U+E0043", "U+E0044", "U+E0045", "U+E0046", "U+E0047",
     "U+E0048", "U+E0049", "U+E004A", "U+E004B", "U+E004C", "U+E004D",
     "U+E004E", "U+E004F", "U+E0050", "U+E0051", "U+E0052", "U+E0053",
     "U+E0054", "U+E0055", "U+E0056", "U+E0057", "U+E0058", "U+E0059",
     "U+E005A", "U+E005B", "U+E005C", "U+E005D", "U+E005E", "U+E005F",
     "U+E0060", "U+E0061", "U+E0062", "U+E0063", "U+E0064", "U+E0065",
     "U+E0066", "U+E0067", "U+E0068", "U+E0069", "U+E006A", "U+E006B",
     "U+E006C", "U+E006D", "U+E006E", "U+E006F", "U+E0070", "U+E0071",
     "U+E0072", "U+E0073", "U+E0074", "U+E0075", "U+E0076", "U+E0077",
     "U+E0078", "U+E0079", "U+E007A", "U+E007B", "U+E007C", "U+E007D",
     "U+E007E", "U+E007F", "U+E0100", "U+E0101", "U+E0102", "U+E0103",
     "U+E0104", "U+E0105", "U+E0106", "U+E0107", "U+E0108", "U+E0109",
     "U+E010A", "U+E010B", "U+E010C", "U+E010D", "U+E010E", "U+E010F",
     "U+E0110", "U+E0111", "U+E0112", "U+E0113", "U+E0114", "U+E0115",
     "U+E0116", "U+E0117", "U+E0118", "U+E0119", "U+E011A", "U+E011B",
     "U+E011C", "U+E011D", "U+E011E", "U+E011F", "U+E0120", "U+E0121",
     "U+E0122", "U+E0123", "U+E0124", "U+E0125", "U+E0126", "U+E0127",
     "U+E0128", "U+E0129", "U+E012A", "U+E012B", "U+E012C", "U+E012D",
     "U+E012E", "U+E012F", "U+E0130", "U+E0131", "U+E0132", "U+E0133",
     "U+E0134", "U+E0135", "U+E0136", "U+E0137", "U+E0138", "U+E0139",
     "U+E013A", "U+E013B", "U+E013C", "U+E013D", "U+E013E", "U+E013F",
     "U+E0140", "U+E0141", "U+E0142", "U+E0143", "U+E0144", "U+E0145",
     "U+E0146", "U+E0147", "U+E0148", "U+E0149", "U+E014A", "U+E014B",
     "U+E014C", "U+E014D", "U+E014E", "U+E014F", "U+E0150", "U+E0151",
     "U+E0152", "U+E0153", "U+E0154", "U+E0155", "U+E0156", "U+E0157",
     "U+E0158", "U+E0159", "U+E015A", "U+E015B", "U+E015C", "U+E015D",
     "U+E015E", "U+E015F", "U+E0160", "U+E0161", "U+E0162", "U+E0163",
     "U+E0164", "U+E0165", "U+E0166", "U+E0167", "U+E0168", "U+E0169",
     "U+E016A", "U+E016B", "U+E016C", "U+E016D", "U+E016E", "U+E016F",
     "U+E0170", "U+E0171", "U+E0172", "U+E0173", "U+E0174", "U+E0175",
     "U+E0176", "U+E0177", "U+E0178", "U+E0179", "U+E017A", "U+E017B",
     "U+E017C", "U+E017D", "U+E017E", "U+E017F", "U+E0180", "U+E0181",
     "U+E0182", "U+E0183", "U+E0184", "U+E0185", "U+E0186", "U+E0187",
     "U+E0188", "U+E0189", "U+E018A", "U+E018B", "U+E018C", "U+E018D",
     "U+E018E", "U+E018F", "U+E0190", "U+E0191", "U+E0192", "U+E0193",
     "U+E0194", "U+E0195", "U+E0196", "U+E0197", "U+E0198", "U+E0199",
     "U+E019A", "U+E019B", "U+E019C", "U+E019D", "U+E019E", "U+E019F",
     "U+E01A0", "U+E01A1", "U+E01A2", "U+E01A3", "U+E01A4", "U+E01A5",
     "U+E01A6", "U+E01A7", "U+E01A8", "U+E01A9", "U+E01AA", "U+E01AB",
     "U+E01AC", "U+E01AD", "U+E01AE", "U+E01AF", "U+E01B0", "U+E01B1",
     "U+E01B2", "U+E01B3", "U+E01B4", "U+E01B5", "U+E01B6", "U+E01B7",
     "U+E01B8", "U+E01B9", "U+E01BA", "U+E01BB", "U+E01BC", "U+E01BD",
     "U+E01BE", "U+E01BF", "U+E01C0", "U+E01C1", "U+E01C2", "U+E01C3",
     "U+E01C4", "U+E01C5", "U+E01C6", "U+E01C7", "U+E01C8", "U+E01C9",
     "U+E01CA", "U+E01CB", "U+E01CC", "U+E01CD", "U+E01CE", "U+E01CF",
     "U+E01D0", "U+E01D1", "U+E01D2", "U+E01D3", "U+E01D4", "U+E01D5",
     "U+E01D6", "U+E01D7", "U+E01D8", "U+E01D9", "U+E01DA", "U+E01DB",
     "U+E01DC", "U+E01DD", "U+E01DE", "U+E01DF", "U+E01E0", "U+E01E1",
     "U+E01E2", "U+E01E3", "U+E01E4", "U+E01E5", "U+E01E6", "U+E01E7",
     "U+E01E8", "U+E01E9", "U+E01EA", "U+E01EB", "U+E01EC", "U+E01ED",
     "U+E01EE", "U+E01EF"}

\* The cased characters that are not case-ignorable.
Cased ==
    {"A", "B", "C", "D", "E", "F", "G", "H", "I", "J", "K", "L", "M", "N",
     "O", "P", "Q", "R", "S", "T", "U", "V", "W", "X", "Y", "Z", "a", "b",
     "c", "d", "e", "f", "g", "h", "i", "j", "k", "l", "m", "n", "o", "p",
     "q", "r", "s", "t", "u", "v", "w", "x", "y", "z", "ª", "µ", "º", "À",
     "Á", "Â", "Ã", "Ä", "Å", "Æ", "Ç", "È", "É", "Ê", "Ë", "Ì", "Í", "Î",
     "Ï", "Ð", "Ñ", "Ò", "Ó", "Ô", "Õ", "Ö", "Ø", "Ù", "Ú", "Û", "Ü", "Ý",
     "Þ", "ß", "à", "á", "â", "ã", "ä", "å", "æ", "ç", "è", "é", "ê", "ë",
     "ì", "í", "î", "ï", "ð", "ñ", "ò", "ó", "ô", "õ", "ö", "ø", "ù", "ú",
     "û", "ü", "ý", "þ", "ÿ", "U+0100", "U+0101", "U+0102", "U+0103",
     "U+0104", "U+0105", "U+0106", "U+0107", "U+0108", "U+0109", "U+010A",
     "U+010B", "U+010C", "U+010D", "U+010E", "U+010F", "U+0110", "U+0111",
     "U+0112", "U+0113", "U+0114", "U+0115", "U+0116", "U+0117", "U+0118",
     "U+0119", "U+011A", "U+011B", "U+011C", "U+011D", "U+011E", "U+011F",
     "U+0120", "U+0121", "U+0122", "U+0123", "U+0124", "U+0125", "U+0126",
     "U+0127", "U+0128", "U+0129", "U+012A", "U+012B", "U+012C", "U+012D",
     "U+012E", "U+012F", "U+0130", "U+0131", "U+0132", "U+0133", "U+0134",
     "U+0135", "U+0136", "U+0137", "U+0138", "U+0139", "U+013A", "U+013B",
     "U+013C", "U+013D", "U+013E", "U+013F", "U+0140", "U+0141", "U+0142",
     "U+0143", "U+0144", "U+0145", "U+0146", "U+0147", "U+0148", "U+0149",
     "U+014A", "U+014B", "U+014C", "U+014D", "U+014E", "U+014F", "U+0150",
     "U+0151", "U+0152", "U+0153", "U+0154", "U+0155", "U+0156", "U+0157",
     "U+0158", "U+0159", "U+015A", "U+015B", "U+015C", "U+015D", "U+015E",
     "U+015F", "U+0160", "U+0161", "U+0162", "U+0163", "U+0164", "U+0165",
     "U+0166", "U+0167", "U+0168", "U+0169", "U+016A", "U+016B", "U+016C",
     "U+016D", "U+016E", "U+016F", "U+0170", "U+0171", "U+0172", "U+0173",
     "U+0174", "U+0175", "U+0176", "U+0177", "U+0178", "U+0179", "U+017A",
     "U+017B", "U+017C", "U+017D", "U+017E", "U+017F", "ƀ", "Ɓ", "Ƃ", "ƃ",
     "Ƅ", "ƅ", "Ɔ", "Ƈ", "ƈ", "Ɖ", "Ɗ", "Ƌ", "ƌ", "ƍ", "Ǝ", "Ə", "Ɛ", "Ƒ",
     "ƒ", "Ɠ", "Ɣ", "ƕ", "Ɩ", "Ɨ", "Ƙ", "ƙ", "ƚ", "ƛ", "Ɯ", "Ɲ", "ƞ", "Ɵ",
     "Ơ", "ơ", "Ƣ", "ƣ", "Ƥ", "ƥ", "Ʀ", "Ƨ", "ƨ", "Ʃ", "ƪ", "ƫ", "Ƭ", "ƭ",
     "Ʈ", "Ư", "ư", "Ʊ", "Ʋ", "Ƴ", "ƴ", "Ƶ", "ƶ", "Ʒ", "Ƹ", "ƹ", "ƺ", "Ƽ",
     "ƽ", "ƾ", "ƿ", "Ǆ", "ǅ", "ǆ", "Ǉ", "ǈ", "ǉ", "Ǌ", "ǋ", "ǌ", "Ǎ", "ǎ",
     "Ǐ", "ǐ", "Ǒ", "ǒ", "Ǔ", "ǔ", "Ǖ", "ǖ", "Ǘ", "ǘ", "Ǚ", "ǚ", "Ǜ", "ǜ",
     "ǝ", "Ǟ", "ǟ", "Ǡ", "ǡ", "Ǣ", "ǣ", "Ǥ", "ǥ", "Ǧ", "ǧ", "Ǩ", "ǩ", "Ǫ",
     "ǫ", "Ǭ", "ǭ", "Ǯ", "ǯ", "ǰ", "Ǳ", "ǲ", "ǳ", "Ǵ", "ǵ", "Ƕ", "Ƿ", "Ǹ",
     "ǹ", "Ǻ", "ǻ", "Ǽ", "ǽ", "Ǿ", "ǿ", "U+0200", "U+0201", "U+0202",
     "U+0203", "U+0204", "U+0205", "U+0206", "U+0207", "U+0208", "U+0209",
     "U+020A", "U+020B", "U+020C", "U+020D", "U+020E", "U+020F", "U+0210",
     "U+0211", "U+0212", "U+0213", "U+0214", "U+0215", "U+0216", "U+0217",
     "U+0218", "U+0219", "U+021A", "U+021B", "U+021C", "U+021D", "U+021E",
     "U+021F", "U+0220", "U+0221", "U+0222", "U+0223", "U+0224", "U+0225",
     "U+0226", "U+0227", "U+0228", "U+0229", "U+022A", "U+022B", "U+022C",
     "U+022D", "U+022E", "U+022F", "U+0230", "U+0231", "U+0232", "U+0233",
     "U+0234", "U+0235", "U+0236", "U+0237", "U+0238", "U+0239", "U+023A",
     "U+023B", "U+023C", "U+023D", "U+023E", "U+023F", "U+0240", "U+0241",
     "U+0242", "U+0243", "U+0244", "U+0245", "U+0246", "U+0247", "U+0248",
     "U+0249", "U+024A", "U+024B", "U+024C", "U+024D", "U+024E", "U+024F",
     "U+0250", "U+0251", "U+0252", "U+0253", "U+0254", "U+0255", "U+0256",
     "U+0257", "U+0258", "U+0259", "U+025A", "U+025B", "U+025C", "U+025D",
     "U+025E", "U+025F", "U+0260", "U+0261", "U+0262", "U+0263", "U+0264",
     "U+0265", "U+0266", "U+0267", "U+0268", "U+0269", "U+026A", "U+026B",
     "U+026C", "U+026D", "U+026E", "U+026F", "U+0270", "U+0271", "U+0272",
     "U+0273", "U+0274", "U+0275", "U+0276", "U+0277", "U+0278", "U+0279",
     "U+027A", "U+027B", "U+027C", "U+027D", "U+027E", "U+027F", "ʀ", "ʁ",
     "ʂ", "ʃ", "ʄ", "ʅ", "ʆ", "ʇ", "ʈ", "ʉ", "ʊ", "ʋ", "ʌ", "ʍ", "ʎ", "ʏ",
     "ʐ", "ʑ", "ʒ", "ʓ", "ʕ", "ʖ", "ʗ", "ʘ", "ʙ", "ʚ", "ʛ", "ʜ", "ʝ", "ʞ",
     "ʟ", "ʠ", "ʡ", "ʢ", "ʣ", "ʤ", "ʥ", "ʦ", "ʧ", "ʨ", "ʩ", "ʪ", "ʫ", "ʬ",
     "ʭ", "ʮ", "ʯ", "U+0370", "U+0371", "U+0372", "U+0373", "U+0376",
     "U+0377", "U+037B", "U+037C", "U+037D", "U+037F", "Ά", "Έ", "Ή", "Ί",
     "Ό", "Ύ", "Ώ", "ΐ", "Α", "Β", "Γ", "Δ", "Ε", "Ζ", "Η", "Θ", "Ι", "Κ",
     "Λ", "Μ", "Ν", "Ξ", "Ο", "Π", "Ρ", "Σ", "Τ", "Υ", "Φ", "Χ", "Ψ", "Ω",
     "Ϊ", "Ϋ", "ά", "έ", "ή", "ί", "ΰ", "α", "β", "γ", "δ", "ε", "ζ", "η",
     "θ", "ι", "κ", "λ", "μ", "ν", "ξ", "ο", "π", "ρ", "ς", "σ", "τ", "υ",
     "φ", "χ", "ψ", "ω", "ϊ", "ϋ", "ό", "ύ", "ώ", "Ϗ", "ϐ", "ϑ", "ϒ", "ϓ",
     "ϔ", "ϕ", "ϖ", "ϗ", "Ϙ", "ϙ", "Ϛ", "ϛ", "Ϝ", "ϝ", "Ϟ", "ϟ", "Ϡ", "ϡ",
     "Ϣ", "ϣ", "Ϥ", "ϥ", "Ϧ", "ϧ", "Ϩ", "ϩ", "Ϫ", "ϫ", "Ϭ", "ϭ", "Ϯ", "ϯ",
     "ϰ", "ϱ", "ϲ", "ϳ", "ϴ", "ϵ", "Ϸ", "ϸ", "Ϲ", "Ϻ", "ϻ", "ϼ", "Ͻ", "Ͼ",
     "Ͽ", "U+0400", "U+0401", "U+0402", "U+0403", "U+0404", "U+0405",
     "U+0406", "U+0407", "U+0408", "U+0409", "U+040A", "U+040B", "U+040C",
     "U+040D", "U+040E", "U+040F", "U+0410", "U+0411", "U+0412", "U+0413",
     "U+0414", "U+0415", "U+0416", "U+0417", "U+0418", "U+0419", "U+041A",
     "U+041B", "U+041C", "U+041D", "U+041E", "U+041F", "U+0420", "U+0421",
     "U+0422", "U+0423", "U+0424", "U+0425", "U+0426", "U+0427", "U+0428",
     "U+0429", "U+042A", "U+042B", "U+042C", "U+042D", "U+042E", "U+042F",
     "U+0430", "U+0431", "U+0432", "U+0433", "U+0434", "U+0435", "U+0436",
     "U+0437", "U+0438", "U+0439", "U+043A", "U+043B", "U+043C", "U+043D",
     "U+043E", "U+043F", "U+0440", "U+0441", "U+0442", "U+0443", "U+0444",
     "U+0445", "U+0446", "U+0447", "U+0448", "U+0449", "U+044A", "U+044B",
     "U+044C", "U+044D", "U+044E", "U+044F", "U+0450", "U+0451", "U+0452",
     "U+0453", "U+0454", "U+0455", "U+0456", "U+0457", "U+0458", "U+0459",
     "U+045A", "U+045B", "U+045C", "U+045D", "U+045E", "U+045F", "U+0460",
     "U+0461", "U+0462", "U+0463", "U+0464", "U+0465", "U+0466", "U+0467",
     "U+0468", "U+0469", "U+046A", "U+046B", "U+046C", "U+046D", "U+046E",
     "U+046F", "U+0470", "U+0471", "U+0472", "U+0473", "U+0474", "U+0475",
     "U+0476", "U+0477", "U+0478", "U+0479", "U+047A", "U+047B", "U+047C",
     "U+047D", "U+047E", "U+047F", "Ҁ", "ҁ", "Ҋ", "ҋ", "Ҍ", "ҍ", "Ҏ", "ҏ",
     "Ґ", "ґ", "Ғ", "ғ", "Ҕ", "ҕ", "Җ", "җ", "Ҙ", "ҙ", "Қ", "қ", "Ҝ", "ҝ",
     "Ҟ", "ҟ", "Ҡ", "ҡ", "Ң", "ң", "Ҥ", "ҥ", "Ҧ", "ҧ", "Ҩ", "ҩ", "Ҫ", "ҫ",
     "Ҭ", "ҭ", "Ү", "ү", "Ұ", "ұ", "Ҳ", "ҳ", "Ҵ", "ҵ", "Ҷ", "ҷ", "Ҹ", "ҹ",
     "Һ", "һ", "Ҽ", "ҽ", "Ҿ", "ҿ", "Ӏ", "Ӂ", "ӂ", "Ӄ", "ӄ", "Ӆ", "ӆ", "Ӈ",
     "ӈ", "Ӊ", "ӊ", "Ӌ", "ӌ", "Ӎ", "ӎ", "ӏ", "Ӑ", "ӑ", "Ӓ", "ӓ", "Ӕ", "ӕ",
     "Ӗ", "ӗ", "Ә", "ә", "Ӛ", "ӛ", "Ӝ", "ӝ", "Ӟ", "ӟ", "Ӡ", "ӡ", "Ӣ", "ӣ",
     "Ӥ", "ӥ", "Ӧ", "ӧ", "Ө", "ө", "Ӫ", "ӫ", "Ӭ", "ӭ", "Ӯ", "ӯ", "Ӱ", "ӱ",
     "Ӳ", "ӳ", "Ӵ", "ӵ", "Ӷ", "ӷ", "Ӹ", "ӹ", "Ӻ", "ӻ", "Ӽ", "ӽ", "Ӿ", "ӿ",
     "U+0500", "U+0501", "U+0502", "U+0503", "U+0504", "U+0505", "U+0506",
     "U+0507", "U+0508", "U+0509", "U+050A", "U+050B", "U+050C", "U+050D",
     "U+050E", "U+050F", "U+0510", "U+0511", "U+0512", "U+0513", "U+0514",
     "U+0515", "U+0516", "U+0517", "U+0518", "U+0519", "U+051A", "U+051B",
     "U+051C", "U+051D", "U+051E", "U+051F", "U+0520", "U+0521", "U+0522",
     "U+0523", "U+0524", "U+0525", "U+0526", "U+0527", "U+0528", "U+0529",
     "U+052A", "U+052B", "U+052C", "U+052D", "U+052E", "U+052F", "U+0531",
     "U+0532", "U+0533", "U+0534", "U+0535", "U+0536", "U+0537", "U+0538",
     "U+0539", "U+053A", "U+053B", "U+053C", "U+053D", "U+053E", "U+053F",
     "U+0540", "U+0541", "U+0542", "U+0543", "U+0544", "U+0545", "U+0546",
     "U+0547", "U+0548", "U+0549", "U+054A", "U+054B", "U+054C", "U+054D",
     "U+054E", "U+054F", "U+0550", "U+0551", "U+0552", "U+0553", "U+0554",
     "U+0555", "U+0556", "U+0560", "U+0561", "U+0562", "U+0563", "U+0564",
     "U+0565", "U+0566", "U+0567", "U+0568", "U+0569", "U+056A", "U+056B",
     "U+056C", "U+056D", "U+056E", "U+056F", "U+0570", "U+0571", "U+0572",
     "U+0573", "U+0574", "U+0575", "U+0576", "U+0577", "U+0578", "U+0579",
     "U+057A", "U+057B", "U+057C", "U+057D", "U+057E", "U+057F", "ր", "ց",
     "ւ", "փ", "ք", "օ", "ֆ", "և", "ֈ", "Ⴀ", "Ⴁ", "Ⴂ", "Ⴃ", "Ⴄ", "Ⴅ", "Ⴆ",
     "Ⴇ", "Ⴈ", "Ⴉ", "Ⴊ", "Ⴋ", "Ⴌ", "Ⴍ", "Ⴎ", "Ⴏ", "Ⴐ", "Ⴑ", "Ⴒ", "Ⴓ", "Ⴔ",
     "Ⴕ", "Ⴖ", "Ⴗ", "Ⴘ", "Ⴙ", "Ⴚ", "Ⴛ", "Ⴜ", "Ⴝ", "Ⴞ", "Ⴟ", "Ⴠ", "Ⴡ", "Ⴢ",
     "Ⴣ", "Ⴤ", "Ⴥ", "Ⴧ", "Ⴭ", "ა", "ბ", "გ", "დ", "ე", "ვ", "ზ", "თ", "ი",
     "კ", "ლ", "მ", "ნ", "ო", "პ", "ჟ", "რ", "ს", "ტ", "უ", "ფ", "ქ", "ღ",
     "ყ", "შ", "ჩ", "ც", "ძ", "წ", "ჭ", "ხ", "ჯ", "ჰ", "ჱ", "ჲ", "ჳ", "ჴ",
     "ჵ", "ჶ", "ჷ", "ჸ", "ჹ", "ჺ", "ჽ", "ჾ", "ჿ", "Ꭰ", "Ꭱ", "Ꭲ", "Ꭳ", "Ꭴ",
     "Ꭵ", "Ꭶ", "Ꭷ", "Ꭸ", "Ꭹ", "Ꭺ", "Ꭻ", "Ꭼ", "Ꭽ", "Ꭾ", "Ꭿ", "Ꮀ", "Ꮁ", "Ꮂ",
     "Ꮃ", "Ꮄ", "Ꮅ", "Ꮆ", "Ꮇ", "Ꮈ", "Ꮉ", "Ꮊ", "Ꮋ", "Ꮌ", "Ꮍ", "Ꮎ", "Ꮏ", "Ꮐ",
     "Ꮑ", "Ꮒ", "Ꮓ", "Ꮔ", "Ꮕ", "Ꮖ", "Ꮗ", "Ꮘ", "Ꮙ", "Ꮚ", "Ꮛ", "Ꮜ", "Ꮝ", "Ꮞ",
     "Ꮟ", "Ꮠ", "Ꮡ", "Ꮢ", "Ꮣ", "Ꮤ", "Ꮥ", "Ꮦ", "Ꮧ", "Ꮨ", "Ꮩ", "Ꮪ", "Ꮫ", "Ꮬ",
     "Ꮭ", "Ꮮ", "Ꮯ", "Ꮰ", "Ꮱ", "Ꮲ", "Ꮳ", "Ꮴ", "Ꮵ", "Ꮶ", "Ꮷ", "Ꮸ", "Ꮹ", "Ꮺ",
     "Ꮻ", "Ꮼ", "Ꮽ", "Ꮾ", "Ꮿ", "Ᏸ", "Ᏹ", "Ᏺ", "Ᏻ", "Ᏼ", "Ᏽ", "ᏸ", "ᏹ", "ᏺ",
     "ᏻ", "ᏼ", "ᏽ", "ᲀ", "ᲁ", "ᲂ", "ᲃ", "ᲄ", "ᲅ", "ᲆ", "ᲇ", "ᲈ", "Ა", "Ბ",
     "Გ", "Დ", "Ე", "Ვ", "Ზ", "Თ", "Ი", "Კ", "Ლ", "Მ", "Ნ", "Ო", "Პ", "Ჟ",
     "Რ", "Ს", "Ტ", "Უ", "Ფ", "Ქ", "Ღ", "Ყ", "Შ", "Ჩ", "Ც", "Ძ", "Წ", "Ჭ",
     "Ხ", "Ჯ", "Ჰ", "Ჱ", "Ჲ", "Ჳ", "Ჴ", "Ჵ", "Ჶ", "Ჷ", "Ჸ", "Ჹ", "Ჺ", "Ჽ",
     "Ჾ", "Ჿ", "U+1D00", "U+1D01", "U+1D02", "U+1D03", "U+1D04", "U+1D05",
     "U+1D06", "U+1D07", "U+1D08", "U+1D09", "U+1D0A", "U+1D0B", "U+1D0C",
     "U+1D0D", "U+1D0E", "U+1D0F", "U+1D10", "U+1D11", "U+1D12", "U+1D13",
     "U+1D14", "U+1D15", "U+1D16", "U+1D17", "U+1D18", "U+1D19", "U+1D1A",
     "U+1D1B", "U+1D1C", "U+1D1D", "U+1D1E", "U+1D1F", "U+1D20", "U+1D21",
     "U+1D22", "U+1D23", "U+1D24", "U+1D25", "U+1D26", "U+1D27", "U+1D28",
     "U+1D29", "U+1D2A", "U+1D2B", "U+1D6B", "U+1D6C", "U+1D6D", "U+1D6E",
     "U+1D6F", "U+1D70", "U+1D71", "U+1D72", "U+1D73", "U+1D74", "U+1D75",
     "U+1D76", "U+1D77", "U+1D79", "U+1D7A", "U+1D7B", "U+1D7C", "U+1D7D",
     "U+1D7E", "U+1D7F", "ᶀ", "ᶁ", "ᶂ", "ᶃ", "ᶄ", "ᶅ", "ᶆ", "ᶇ", "ᶈ", "ᶉ",
     "ᶊ", "ᶋ", "ᶌ", "ᶍ", "ᶎ", "ᶏ", "ᶐ", "ᶑ", "ᶒ", "ᶓ", "ᶔ", "ᶕ", "ᶖ", "ᶗ",
     "ᶘ", "ᶙ", "ᶚ", "U+1E00", "U+1E01", "U+1E02", "U+1E03", "U+1E04",
     "U+1E05", "U+1E06", "U+1E07", "U+1E08", "U+1E09", "U+1E0A", "U+1E0B",
     "U+1E0C", "U+1E0D", "U+1E0E", "U+1E0F", "U+1E10", "U+1E11", "U+1E12",
     "U+1E13", "U+1E14", "U+1E15", "U+1E16", "U+1E17", "U+1E18", "U+1E19",
     "U+1E1A", "U+1E1B", "U+1E1C", "U+1E1D", "U+1E1E", "U+1E1F", "U+1E20",
     "U+1E21", "U+1E22", "U+1E23", "U+1E24", "U+1E25", "U+1E26", "U+1E27",
     "U+1E28", "U+1E29", "U+1E2A", "U+1E2B", "U+1E2C", "U+1E2D", "U+1E2E",
     "U+1E2F", "U+1E30", "U+1E31", "U+1E32", "U+1E33", "U+1E34", "U+1E35",
     "U+1E36", "U+1E37", "U+1E38", "U+1E39", "U+1E3A", "U+1E3B", "U+1E3C",
     "U+1E3D", "U+1E3E", "U+1E3F", "U+1E40", "U+1E41", "U+1E42", "U+1E43",
     "U+1E44", "U+1E45", "U+1E46", "U+1E47", "U+1E48", "U+1E49", "U+1E4A",
     "U+1E4B", "U+1E4C", "U+1E4D", "U+1E4E", "U+1E4F", "U+1E50", "U+1E51",
     "U+1E52", "U+1E53", "U+1E54", "U+1E55", "U+1E56", "U+1E57", "U+1E58",
     "U+1E59", "U+1E5A", "U+1E5B", "U+1E5C", "U+1E5D", "U+1E5E", "U+1E5F",
     "U+1E60", "U+1E61", "U+1E62", "U+1E63", "U+1E64", "U+1E65", "U+1E66",
     "U+1E67", "U+1E68", "U+1E69", "U+1E6A", "U+1E6B", "U+1E6C", "U+1E6D",
     "U+1E6E", "U+1E6F", "U+1E70", "U+1E71", "U+1E72", "U+1E73", "U+1E74",
     "U+1E75", "U+1E76", "U+1E77", "U+1E78", "U+1E79", "U+1E7A", "U+1E7B",
     "U+1E7C", "U+1E7D", "U+1E7E", "U+1E7F", "Ẁ", "ẁ", "Ẃ", "ẃ", "Ẅ", "ẅ",
     "Ẇ", "ẇ", "Ẉ", "ẉ", "Ẋ", "ẋ", "Ẍ", "ẍ", "Ẏ", "ẏ", "Ẑ", "ẑ", "Ẓ", "ẓ",
     "Ẕ", "ẕ", "ẖ", "ẗ", "ẘ", "ẙ", "ẚ", "ẛ", "ẜ", "ẝ", "ẞ", "ẟ", "Ạ", "ạ",
     "Ả", "ả", "Ấ", "ấ", "Ầ", "ầ", "Ẩ", "ẩ", "Ẫ", "ẫ", "Ậ", "ậ", "Ắ", "ắ",
     "Ằ", "ằ", "Ẳ", "ẳ", "Ẵ", "ẵ", "Ặ", "ặ", "Ẹ", "ẹ", "Ẻ", "ẻ", "Ẽ", "ẽ",
     "Ế", "ế", "Ề", "ề", "Ể", "ể", "Ễ", "ễ", "Ệ", "ệ", "Ỉ", "ỉ", "Ị", "ị",
     "Ọ", "ọ", "Ỏ", "ỏ", "Ố", "ố", "Ồ", "ồ", "Ổ", "ổ", "Ỗ", "ỗ", "Ộ", "ộ",
     "Ớ", "ớ", "Ờ", "ờ", "Ở", "ở", "Ỡ", "ỡ", "Ợ", "ợ", "Ụ", "ụ", "Ủ", "ủ",
     "Ứ", "ứ", "Ừ", "ừ", "Ử", "ử", "Ữ", "ữ", "Ự", "ự", "Ỳ", "ỳ", "Ỵ", "ỵ",
     "Ỷ", "ỷ", "Ỹ", "ỹ", "Ỻ", "ỻ", "Ỽ", "ỽ", "Ỿ", "ỿ", "U+1F00", "U+1F01",
     "U+1F02", "U+1F03", "U+1F04", "U+1F05", "U+1F06", "U+1F07", "U+1F08",
     "U+1F09", "U+1F0A", "U+1F0B", "U+1F0C", "U+1F0D", "U+1F0E", "U+1F0F",
     "U+1F10", "U+1F11", "U+1F12", "U+1F13", "U+1F14", "U+1F15", "U+1F18",
     "U+1F19", "U+1F1A", "U+1F1B", "U+1F1C", "U+1F1D", "U+1F20", "U+1F21",
     "U+1F22", "U+1F23", "U+1F24", "U+1F25", "U+1F26", "U+1F27", "U+1F28",
     "U+1F29", "U+1F2A", "U+1F2B", "U+1F2C", "U+1F2D", "U+1F2E", "U+1F2F",
     "U+1F30", "U+1F31", "U+1F32", "U+1F33", "U+1F34", "U+1F35", "U+1F36",
     "U+1F37", "U+1F38", "U+1F39", "U+1F3A", "U+1F3B", "U+1F3C", "U+1F3D",
     "U+1F3E", "U+1F3F", "U+1F40", "U+1F41", "U+1F42", "U+1F43", "U+1F44",
     "U+1F45", "U+1F48", "U+1F49", "U+1F4A", "U+1F4B", "U+1F4C", "U+1F4D",
     "U+1F50", "U+1F51", "U+1F52", "U+1F53", "U+1F54", "U+1F55", "U+1F56",
     "U+1F57", "U+1F59", "U+1F5B", "U+1F5D", "U+1F5F", "U+1F60", "U+1F61",
     "U+1F62", "U+1F63", "U+1F64", "U+1F65", "U+1F66", "U+1F67", "U+1F68",
     "U+1F69", "U+1F6A", "U+1F6B", "U+1F6C", "U+1F6D", "U+1F6E", "U+1F6F",
     "U+1F70", "U+1F71", "U+1F72", "U+1F73", "U+1F74", "U+1F75", "U+1F76",
     "U+1F77", "U+1F78", "U+1F79", "U+1F7A", "U+1F7B", "U+1F7C", "U+1F7D",
     "ᾀ", "ᾁ", "ᾂ", "ᾃ", "ᾄ", "ᾅ", "ᾆ", "ᾇ", "ᾈ", "ᾉ", "ᾊ", "ᾋ", "ᾌ", "ᾍ",
     "ᾎ", "ᾏ", "ᾐ", "ᾑ", "ᾒ", "ᾓ", "ᾔ", "ᾕ", "ᾖ", "ᾗ", "ᾘ", "ᾙ", "ᾚ", "ᾛ",
     "ᾜ", "ᾝ", "ᾞ", "ᾟ", "ᾠ", "ᾡ", "ᾢ", "ᾣ", "ᾤ", "ᾥ", "ᾦ", "ᾧ", "ᾨ", "ᾩ",
     "ᾪ", "ᾫ", "ᾬ", "ᾭ", "ᾮ", "ᾯ", "ᾰ", "ᾱ", "ᾲ", "ᾳ", "ᾴ", "ᾶ", "ᾷ", "Ᾰ",
     "Ᾱ", "Ὰ", "Ά", "ᾼ", "ι", "ῂ", "ῃ", "ῄ", "ῆ", "ῇ", "Ὲ", "Έ", "Ὴ", "Ή",
     "ῌ", "ῐ", "ῑ", "ῒ", "ΐ", "ῖ", "ῗ", "Ῐ", "Ῑ", "Ὶ", "Ί", "ῠ", "ῡ", "ῢ",
     "ΰ", "ῤ", "ῥ", "ῦ", "ῧ", "Ῠ", "Ῡ", "Ὺ", "Ύ", "Ῥ", "ῲ", "ῳ", "ῴ", "ῶ",
     "ῷ", "Ὸ", "Ό", "Ὼ", "Ώ", "ῼ", "U+2102", "U+2107", "U+210A", "U+210B",
     "U+210C", "U+210D", "U+210E", "U+210F", "U+2110", "U+2111", "U+2112",
     "U+2113", "U+2115", "U+2119", "U+211A", "U+211B", "U+211C", "U+211D",
     "U+2124", "U+2126", "U+2128", "U+212A", "U+212B", "U+212C", "U+212D",
     "U+212F", "U+2130", "U+2131", "U+2132", "U+2133", "U+2134", "U+2139",
     "U+213C", "U+213D", "U+213E", "U+213F", "U+2145", "U+2146", "U+2147",
     "U+2148", "U+2149", "U+214E", "U+2160", "U+2161", "U+2162", "U+2163",
     "U+2164", "U+2165", "U+2166", "U+2167", "U+2168", "U+2169", "U+216A",
     "U+216B", "U+216C", "U+216D", "U+216E", "U+216F", "U+2170", "U+2171",
     "U+2172", "U+2173", "U+2174", "U+2175", "U+2176", "U+2177", "U+2178",
     "U+2179", "U+217A", "U+217B", "U+217C", "U+217D", "U+217E", "U+217F",
     "Ↄ", "ↄ", "Ⓐ", "Ⓑ", "Ⓒ", "Ⓓ", "Ⓔ", "Ⓕ", "Ⓖ", "Ⓗ", "Ⓘ", "Ⓙ", "Ⓚ", "Ⓛ",
     "Ⓜ", "Ⓝ", "Ⓞ", "Ⓟ", "Ⓠ", "Ⓡ", "Ⓢ", "Ⓣ", "Ⓤ", "Ⓥ", "Ⓦ", "Ⓧ", "Ⓨ", "Ⓩ",
     "ⓐ", "ⓑ", "ⓒ", "ⓓ", "ⓔ", "ⓕ", "ⓖ", "ⓗ", "ⓘ", "ⓙ", "ⓚ", "ⓛ", "ⓜ", "ⓝ",
     "ⓞ", "ⓟ", "ⓠ", "ⓡ", "ⓢ", "ⓣ", "ⓤ", "ⓥ", "ⓦ", "ⓧ", "ⓨ", "ⓩ", "U+2C00",
     "U+2C01", "U+2C02", "U+2C03", "U+2C04", "U+2C05", "U+2C06", "U+2C07",
     "U+2C08", "U+2C09", "U+2C0A", "U+2C0B", "U+2C0C", "U+2C0D", "U+2C0E",
     "U+2C0F", "U+2C10", "U+2C11", "U+2C12", "U+2C13", "U+2C14", "U+2C15",
     "U+2C16", "U+2C17", "U+2C18", "U+2C19", "U+2C1A", "U+2C1B", "U+2C1C",
     "U+2C1D", "U+2C1E", "U+2C1F", "U+2C20", "U+2C21", "U+2C22", "U+2C23",
     "U+2C24", "U+2C25", "U+2C26", "U+2C27", "U+2C28", "U+2C29", "U+2C2A",
     "U+2C2B", "U+2C2C", "U+2C2D", "U+2C2E", "U+2C2F", "U+2C30", "U+2C31",
     "U+2C32", "U+2C33", "U+2C34", "U+2C35", "U+2C36", "U+2C37", "U+2C38",
     "U+2C39", "U+2C3A", "U+2C3B", "U+2C3C", "U+2C3D", "U+2C3E", "U+2C3F",
     "U+2C40", "U+2C41", "U+2C42", "U+2C43", "U+2C44", "U+2C45", "U+2C46",
     "U+2C47", "U+2C48", "U+2C49", "U+2C4A", "U+2C4B", "U+2C4C", "U+2C4D",
     "U+2C4E", "U+2C4F", "U+2C50", "U+2C51", "U+2C52", "U+2C53", "U+2C54",
     "U+2C55", "U+2C56", "U+2C57", "U+2C58", "U+2C59", "U+2C5A", "U+2C5B",
     "U+2C5C", "U+2C5D", "U+2C5E", "U+2C5F", "U+2C60", "U+2C61", "U+2C62",
     "U+2C63", "U+2C64", "U+2C65", "U+2C66", "U+2C67", "U+2C68", "U+2C69",
     "U+2C6A", "U+2C6B", "U+2C6C", "U+2C6D", "U+2C6E", "U+2C6F", "U+2C70",
     "U+2C71", "U+2C72", "U+2C73", "U+2C74", "U+2C75", "U+2C76", "U+2C77",
     "U+2C78", "U+2C79", "U+2C7A", "U+2C7B", "U+2C7E", "U+2C7F", "Ⲁ", "ⲁ",
     "Ⲃ", "ⲃ", "Ⲅ", "ⲅ", "Ⲇ", "ⲇ", "Ⲉ", "ⲉ", "Ⲋ", "ⲋ", "Ⲍ", "ⲍ", "Ⲏ", "ⲏ",
     "Ⲑ", "ⲑ", "Ⲓ", "ⲓ", "Ⲕ", "ⲕ", "Ⲗ", "ⲗ", "Ⲙ", "ⲙ", "Ⲛ", "ⲛ", "Ⲝ", "ⲝ",
     "Ⲟ", "ⲟ", "Ⲡ", "ⲡ", "Ⲣ", "ⲣ", "Ⲥ", "ⲥ", "Ⲧ", "ⲧ", "Ⲩ", "ⲩ", "Ⲫ", "ⲫ",
     "Ⲭ", "ⲭ", "Ⲯ", "ⲯ", "Ⲱ", "ⲱ", "Ⲳ", "ⲳ", "Ⲵ", "ⲵ", "Ⲷ", "ⲷ", "Ⲹ", "ⲹ",
     "Ⲻ", "ⲻ", "Ⲽ", "ⲽ", "Ⲿ", "ⲿ", "Ⳁ", "ⳁ", "Ⳃ", "ⳃ", "Ⳅ", "ⳅ", "Ⳇ", "ⳇ",
     "Ⳉ", "ⳉ", "Ⳋ", "ⳋ", "Ⳍ", "ⳍ", "Ⳏ", "ⳏ", "Ⳑ", "ⳑ", "Ⳓ", "ⳓ", "Ⳕ", "ⳕ",
     "Ⳗ", "ⳗ", "Ⳙ", "ⳙ", "Ⳛ", "ⳛ", "Ⳝ", "ⳝ", "Ⳟ", "ⳟ", "Ⳡ", "ⳡ", "Ⳣ", "ⳣ",
     "ⳤ", "Ⳬ", "ⳬ", "Ⳮ", "ⳮ", "Ⳳ", "ⳳ", "U+2D00", "U+2D01", "U+2D02",
     "U+2D03", "U+2D04", "U+2D05", "U+2D06", "U+2D07", "U+2D08", "U+2D09",
     "U+2D0A", "U+2D0B", "U+2D0C", "U+2D0D", "U+2D0E", "U+2D0F", "U+2D10",
     "U+2D11", "U+2D12", "U+2D13", "U+2D14", "U+2D15", "U+2D16", "U+2D17",
     "U+2D18", "U+2D19", "U+2D1A", "U+2D1B", "U+2D1C", "U+2D1D", "U+2D1E",
     "U+2D1F", "U+2D20", "U+2D21", "U+2D22", "U+2D23", "U+2D24", "U+2D25",
     "U+2D27", "U+2D2D", "U+A640", "U+A641", "U+A642", "U+A643", "U+A644",
     "U+A645", "U+A646", "U+A647", "U+A648", "U+A649", "U+A64A", "U+A64B",
     "U+A64C", "U+A64D", "U+A64E", "U+A64F", "U+A650", "U+A651", "U+A652",
     "U+A653", "U+A654", "U+A655", "U+A656", "U+A657", "U+A658", "U+A659",
     "U+A65A", "U+A65B", "U+A65C", "U+A65D", "U+A65E", "U+A65F", "U+A660",
     "U+A661", "U+A662", "U+A663", "U+A664", "U+A665", "U+A666", "U+A667",
     "U+A668", "U+A669", "U+A66A", "U+A66B", "U+A66C", "U+A66D", "Ꚁ", "ꚁ",
     "Ꚃ", "ꚃ", "Ꚅ", "ꚅ", "Ꚇ", "ꚇ", "Ꚉ", "ꚉ", "Ꚋ", "ꚋ", "Ꚍ", "ꚍ", "Ꚏ", "ꚏ",
     "Ꚑ", "ꚑ", "Ꚓ", "ꚓ", "Ꚕ", "ꚕ", "Ꚗ", "ꚗ", "Ꚙ", "ꚙ", "Ꚛ", "ꚛ", "U+A722",
     "U+A723", "U+A724", "U+A725", "U+A726", "U+A727", "U+A728", "U+A729",
     "U+A72A", "U+A72B", "U+A72C", "U+A72D", "U+A72E", "U+A72F", "U+A730",
     "U+A731", "U+A732", "U+A733", "U+A734", "U+A735", "U+A736", "U+A737",
     "U+A738", "U+A739", "U+A73A", "U+A73B", "U+A73C", "U+A73D", "U+A73E",
     "U+A73F", "U+A740", "U+A741", "U+A742", "U+A743", "U+A744", "U+A745",
     "U+A746", "U+A747", "U+A748", "U+A749", "U+A74A", "U+A74B", "U+A74C",
     "U+A74D", "U+A74E", "U+A74F", "U+A750", "U+A751", "U+A752", "U+A753",
     "U+A754", "U+A755", "U+A756", "U+A757", "U+A758", "U+A759", "U+A75A",
     "U+A75B", "U+A75C", "U+A75D", "U+A75E", "U+A75F", "U+A760", "U+A761",
     "U+A762", "U+A763", "U+A764", "U+A765", "U+A766", "U+A767", "U+A768",
     "U+A769", "U+A76A", "U+A76B", "U+A76C", "U+A76D", "U+A76E", "U+A76F",
     "U+A771", "U+A772", "U+A773", "U+A774", "U+A775", "U+A776", "U+A777",
     "U+A778", "U+A779", "U+A77A", "U+A77B", "U+A77C", "U+A77D", "U+A77E",
     "U+A77F", "Ꞁ", "ꞁ", "Ꞃ", "ꞃ", "Ꞅ", "ꞅ", "Ꞇ", "ꞇ", "Ꞌ", "ꞌ", "Ɥ", "ꞎ",
     "Ꞑ", "ꞑ", "Ꞓ", "ꞓ", "ꞔ", "ꞕ", "Ꞗ", "ꞗ", "Ꞙ", "ꞙ", "Ꞛ", "ꞛ", "Ꞝ", "ꞝ",
     "Ꞟ", "ꞟ", "Ꞡ", "ꞡ", "Ꞣ", "ꞣ", "Ꞥ", "ꞥ", "Ꞧ", "ꞧ", "Ꞩ", "ꞩ", "Ɦ", "Ɜ",
     "Ɡ", "Ɬ", "Ɪ", "ꞯ", "Ʞ", "Ʇ", "Ʝ", "Ꭓ", "Ꞵ", "ꞵ", "Ꞷ", "ꞷ", "Ꞹ", "ꞹ",
     "Ꞻ", "ꞻ", "Ꞽ", "ꞽ", "Ꞿ", "ꞿ", "Ꟁ", "ꟁ", "Ꟃ", "ꟃ", "Ꞔ", "Ʂ", "Ᶎ", "Ꟈ",
     "ꟈ", "Ꟊ", "ꟊ", "Ꟑ", "ꟑ", "ꟓ", "ꟕ", "Ꟗ", "ꟗ", "Ꟙ", "ꟙ", "Ꟶ", "ꟶ", "ꟺ",
     "U+AB30", "U+AB31", "U+AB32", "U+AB33", "U+AB34", "U+AB35", "U+AB36",
     "U+AB37", "U+AB38", "U+AB39", "U+AB3A", "U+AB3B", "U+AB3C", "U+AB3D",
     "U+AB3E", "U+AB3F", "U+AB40", "U+AB41", "U+AB42", "U+AB43", "U+AB44",
     "U+AB45", "U+AB46", "U+AB47", "U+AB48", "U+AB49", "U+AB4A", "U+AB4B",
     "U+AB4C", "U+AB4D", "U+AB4E", "U+AB4F", "U+AB50", "U+AB51", "U+AB52",
     "U+AB53", "U+AB54", "U+AB55", "U+AB56", "U+AB57", "U+AB58", "U+AB59",
     "U+AB5A", "U+AB60", "U+AB61", "U+AB62", "U+AB63", "U+AB64", "U+AB65",
     "U+AB66", "U+AB67", "U+AB68", "U+AB70", "U+AB71", "U+AB72", "U+AB73",
     "U+AB74", "U+AB75", "U+AB76", "U+AB77", "U+AB78", "U+AB79", "U+AB7A",
     "U+AB7B", "U+AB7C", "U+AB7D", "U+AB7E", "U+AB7F", "ꮀ", "ꮁ", "ꮂ", "ꮃ",
     "ꮄ", "ꮅ", "ꮆ", "ꮇ", "ꮈ", "ꮉ", "ꮊ", "ꮋ", "ꮌ", "ꮍ", "ꮎ", "ꮏ", "ꮐ", "ꮑ",
     "ꮒ", "ꮓ", "ꮔ", "ꮕ", "ꮖ", "ꮗ", "ꮘ", "ꮙ", "ꮚ", "ꮛ", "ꮜ", "ꮝ", "ꮞ", "ꮟ",
     "ꮠ", "ꮡ", "ꮢ", "ꮣ", "ꮤ", "ꮥ", "ꮦ", "ꮧ", "ꮨ", "ꮩ", "ꮪ", "ꮫ", "ꮬ", "ꮭ",
     "ꮮ", "ꮯ", "ꮰ", "ꮱ", "ꮲ", "ꮳ", "ꮴ", "ꮵ", "ꮶ", "ꮷ", "ꮸ", "ꮹ", "ꮺ", "ꮻ",
     "ꮼ", "ꮽ", "ꮾ", "ꮿ", "U+FB00", "U+FB01", "U+FB02", "U+FB03", "U+FB04",
     "U+FB05", "U+FB06", "U+FB13", "U+FB14", "U+FB15", "U+FB16", "U+FB17",
     "U+FF21", "U+FF22", "U+FF23", "U+FF24", "U+FF25", "U+FF26", "U+FF27",
     "U+FF28", "U+FF29", "U+FF2A", "U+FF2B", "U+FF2C", "U+FF2D", "U+FF2E",
     "U+FF2F", "U+FF30", "U+FF31", "U+FF32", "U+FF33", "U+FF34", "U+FF35",
     "U+FF36", "U+FF37", "U+FF38", "U+FF39", "U+FF3A", "U+FF41", "U+FF42",
     "U+FF43", "U+FF44", "U+FF45", "U+FF46", "U+FF47", "U+FF48", "U+FF49",
     "U+FF4A", "U+FF4B", "U+FF4C", "U+FF4D", "U+FF4E", "U+FF4F", "U+FF50",
     "U+FF51", "U+FF52", "U+FF53", "U+FF54", "U+FF55", "U+FF56", "U+FF57",
     "U+FF58", "U+FF59", "U+FF5A", "U+10400", "U+10401", "U+10402", "U+10403",
     "U+10404", "U+10405", "U+10406", "U+10407", "U+10408", "U+10409",
     "U+1040A", "U+1040B", "U+1040C", "U+1040D", "U+1040E", "U+1040F",
     "U+10410", "U+10411", "U+10412", "U+10413", "U+10414", "U+10415",
     "U+10416", "U+10417", "U+10418", "U+10419", "U+1041A", "U+1041B",
     "U+1041C", "U+1041D", "U+1041E", "U+1041F", "U+10420", "U+10421",
     "U+10422", "U+10423", "U+10424", "U+10425", "U+10426", "U+10427",
     "U+10428", "U+10429", "U+1042A", "U+1042B", "U+1042C", "U+1042D",
     "U+1042E", "U+1042F", "U+10430", "U+10431", "U+10432", "U+10433",
     "U+10434", "U+10435", "U+10436", "U+10437", "U+10438", "U+10439",
     "U+1043A", "U+1043B", "U+1043C", "U+1043D", "U+1043E", "U+1043F",
     "U+10440", "U+10441", "U+10442", "U+10443", "U+10444", "U+10445",
     "U+10446", "U+10447", "U+10448", "U+10449", "U+1044A", "U+1044B",
     "U+1044C", "U+1044D", "U+1044E", "U+1044F", "U+104B0", "U+104B1",
     "U+104B2", "U+104B3", "U+104B4", "U+104B5", "U+104B6", "U+104B7",
     "U+104B8", "U+104B9", "U+104BA", "U+104BB", "U+104BC", "U+104BD",
     "U+104BE", "U+104BF", "U+104C0", "U+104C1", "U+104C2", "U+104C3",
     "U+104C4", "U+104C5", "U+104C6", "U+104C7", "U+104C8", "U+104C9",
     "U+104CA", "U+104CB", "U+104CC", "U+104CD", "U+104CE", "U+104CF",
     "U+104D0", "U+104D1", "U+104D2", "U+104D3", "U+104D8", "U+104D9",
     "U+104DA", "U+104DB", "U+104DC", "U+104DD", "U+104DE", "U+104DF",
     "U+104E0", "U+104E1", "U+104E2", "U+104E3", "U+104E4", "U+104E5",
     "U+104E6", "U+104E7", "U+104E8", "U+104E9", "U+104EA", "U+104EB",
     "U+104EC", "U+104ED", "U+104EE", "U+104EF", "U+104F0", "U+104F1",
     "U+104F2", "U+104F3", "U+104F4", "U+104F5", "U+104F6", "U+104F7",
     "U+104F8", "U+104F9", "U+104FA", "U+104FB", "U+10570", "U+10571",
     "U+10572", "U+10573", "U+10574", "U+10575", "U+10576", "U+10577",
     "U+10578", "U+10579", "U+1057A", "U+1057C", "U+1057D", "U+1057E",
     "U+1057F", "U+10580", "U+10581", "U+10582", "U+10583", "U+10584",
     "U+10585", "U+10586", "U+10587", "U+10588", "U+10589", "U+1058A",
     "U+1058C", "U+1058D", "U+1058E", "U+1058F", "U+10590", "U+10591",
     "U+10592", "U+10594", "U+10595", "U+10597", "U+10598", "U+10599",
     "U+1059A", "U+1059B", "U+1059C", "U+1059D", "U+1059E", "U+1059F",
     "U+105A0", "U+105A1", "U+105A3", "U+105A4", "U+105A5", "U+105A6",
     "U+105A7", "U+105A8", "U+105A9", "U+105AA", "U+105AB", "U+105AC",
     "U+105AD", "U+105AE", "U+105AF", "U+105B0", "U+105B1", "U+105B3",
     "U+105B4", "U+105B5", "U+105B6", "U+105B7", "U+105B8", "U+105B9",
     "U+105BB", "U+105BC", "U+10C80", "U+10C81", "U+10C82", "U+10C83",
     "U+10C84", "U+10C85", "U+10C86", "U+10C87", "U+10C88", "U+10C89",
     "U+10C8A", "U+10C8B", "U+10C8C", "U+10C8D", "U+10C8E", "U+10C8F",
     "U+10C90", "U+10C91", "U+10C92", "U+10C93", "U+10C94", "U+10C95",
     "U+10C96", "U+10C97", "U+10C98", "U+10C99", "U+10C9A", "U+10C9B",
     "U+10C9C", "U+10C9D", "U+10C9E", "U+10C9F", "U+10CA0", "U+10CA1",
     "U+10CA2", "U+10CA3", "U+10CA4", "U+10CA5", "U+10CA6", "U+10CA7",
     "U+10CA8", "U+10CA9", "U+10CAA", "U+10CAB", "U+10CAC", "U+10CAD",
     "U+10CAE", "U+10CAF", "U+10CB0", "U+10CB1", "U+10CB2", "U+10CC0",
     "U+10CC1", "U+10CC2", "U+10CC3", "U+10CC4", "U+10CC5", "U+10CC6",
     "U+10CC7", "U+10CC8", "U+10CC9", "U+10CCA", "U+10CCB", "U+10CCC",
     "U+10CCD", "U+10CCE", "U+10CCF", "U+10CD0", "U+10CD1", "U+10CD2",
     "U+10CD3", "U+10CD4", "U+10CD5", "U+10CD6", "U+10CD7", "U+10CD8",
     "U+10CD9", "U+10CDA", "U+10CDB", "U+10CDC", "U+10CDD", "U+10CDE",
     "U+10CDF", "U+10CE0", "U+10CE1", "U+10CE2", "U+10CE3", "U+10CE4",
     "U+10CE5", "U+10CE6", "U+10CE7", "U+10CE8", "U+10CE9", "U+10CEA",
     "U+10CEB", "U+10CEC", "U+10CED", "U+10CEE", "U+10CEF", "U+10CF0",
     "U+10CF1", "U+10CF2", "U+118A0", "U+118A1", "U+118A2", "U+118A3",
     "U+118A4", "U+118A5", "U+118A6", "U+118A7", "U+118A8", "U+118A9",
     "U+118AA", "U+118AB", "U+118AC", "U+118AD", "U+118AE", "U+118AF",
     "U+118B0", "U+118B1", "U+118B2", "U+118B3", "U+118B4", "U+118B5",
     "U+118B6", "U+118B7", "U+118B8", "U+118B9", "U+118BA", "U+118BB",
     "U+118BC", "U+118BD", "U+118BE", "U+118BF", "U+118C0", "U+118C1",
     "U+118C2", "U+118C3", "U+118C4", "U+118C5", "U+118C6", "U+118C7",
     "U+118C8", "U+118C9", "U+118CA", "U+118CB", "U+118CC", "U+118CD",
     "U+118CE", "U+118CF", "U+118D0", "U+118D1", "U+118D2", "U+118D3",
     "U+118D4", "U+118D5", "U+118D6", "U+118D7", "U+118D8", "U+118D9",
     "U+118DA", "U+118DB", "U+118DC", "U+118DD", "U+118DE", "U+118DF",
     "U+16E40", "U+16E41", "U+16E42", "U+16E43", "U+16E44", "U+16E45",
     "U+16E46", "U+16E47", "U+16E48", "U+16E49", "U+16E4A", "U+16E4B",
     "U+16E4C", "U+16E4D", "U+16E4E", "U+16E4F", "U+16E50", "U+16E51",
     "U+16E52", "U+16E53", "U+16E54", "U+16E55", "U+16E56", "U+16E57",
     "U+16E58", "U+16E59", "U+16E5A", "U+16E5B", "U+16E5C", "U+16E5D",
     "U+16E5E", "U+16E5F", "U+16E60", "U+16E61", "U+16E62", "U+16E63",
     "U+16E64", "U+16E65", "U+16E66", "U+16E67", "U+16E68", "U+16E69",
     "U+16E6A", "U+16E6B", "U+16E6C", "U+16E6D", "U+16E6E", "U+16E6F",
     "U+16E70", "U+16E71", "U+16E72", "U+16E73", "U+16E74", "U+16E75",
     "U+16E76", "U+16E77", "U+16E78", "U+16E79", "U+16E7A", "U+16E7B",
     "U+16E7C", "U+16E7D", "U+16E7E", "U+16E7F", "U+1D400", "U+1D401",
     "U+1D402", "U+1D403", "U+1D404", "U+1D405", "U+1D406", "U+1D407",
     "U+1D408", "U+1D409", "U+1D40A", "U+1D40B", "U+1D40C", "U+1D40D",
     "U+1D40E", "U+1D40F", "U+1D410", "U+1D411", "U+1D412", "U+1D413",
     "U+1D414", "U+1D415", "U+1D416", "U+1D417", "U+1D418", "U+1D419",
     "U+1D41A", "U+1D41B", "U+1D41C", "U+1D41D", "U+1D41E", "U+1D41F",
     "U+1D420", "U+1D421", "U+1D422", "U+1D423", "U+1D424", "U+1D425",
     "U+1D426", "U+1D427", "U+1D428", "U+1D429", "U+1D42A", "U+1D42B",
     "U+1D42C", "U+1D42D", "U+1D42E", "U+1D42F", "U+1D430", "U+1D431",
     "U+1D432", "U+1D433", "U+1D434", "U+1D435", "U+1D436", "U+1D437",
     "U+1D438", "U+1D439", "U+1D43A", "U+1D43B", "U+1D43C", "U+1D43D",
     "U+1D43E", "U+1D43F", "U+1D440", "U+1D441", "U+1D442", "U+1D443",
     "U+1D444", "U+1D445", "U+1D446", "U+1D447", "U+1D448", "U+1D449",
     "U+1D44A", "U+1D44B", "U+1D44C", "U+1D44D", "U+1D44E", "U+1D44F",
     "U+1D450", "U+1D451", "U+1D452", "U+1D453", "U+1D454", "U+1D456",
     "U+1D457", "U+1D458", "U+1D459", "U+1D45A", "U+1D45B", "U+1D45C",
     "U+1D45D", "U+1D45E", "U+1D45F", "U+1D460", "U+1D461", "U+1D462",
     "U+1D463", "U+1D464", "U+1D465", "U+1D466", "U+1D467", "U+1D468",
     "U+1D469", "U+1D46A", "U+1D46B", "U+1D46C", "U+1D46D", "U+1D46E",
     "U+1D46F", "U+1D470", "U+1D471", "U+1D472", "U+1D473", "U+1D474",
     "U+1D475", "U+1D476", "U+1D477", "U+1D478", "U+1D479", "U+1D47A",
     "U+1D47B", "U+1D47C", "U+1D47D", "U+1D47E", "U+1D47F", "U+1D480",
     "U+1D481", "U+1D482", "U+1D483", "U+1D484", "U+1D485", "U+1D486",
     "U+1D487", "U+1D488", "U+1D489", "U+1D48A", "U+1D48B", "U+1D48C",
     "U+1D48D", "U+1D48E", "U+1D48F", "U+1D490", "U+1D491", "U+1D492",
     "U+1D493", "U+1D494", "U+1D495", "U+1D496", "U+1D497", "U+1D498",
     "U+1D499", "U+1D49A", "U+1D49B", "U+1D49C", "U+1D49E", "U+1D49F",
     "U+1D4A2", "U+1D4A5", "U+1D4A6", "U+1D4A9", "U+1D4AA", "U+1D4AB",
     "U+1D4AC", "U+1D4AE", "U+1D4AF", "U+1D4B0", "U+1D4B1", "U+1D4B2",
     "U+1D4B3", "U+1D4B4", "U+1D4B5", "U+1D4B6", "U+1D4B7", "U+1D4B8",
     "U+1D4B9", "U+1D4BB", "U+1D4BD", "U+1D4BE", "U+1D4BF", "U+1D4C0",
     "U+1D4C1", "U+1D4C2", "U+1D4C3", "U+1D4C5", "U+1D4C6", "U+1D4C7",
     "U+1D4C8", "U+1D4C9", "U+1D4CA", "U+1D4CB", "U+1D4CC", "U+1D4CD",
     "U+1D4CE", "U+1D4CF", "U+1D4D0", "U+1D4D1", "U+1D4D2", "U+1D4D3",
     "U+1D4D4", "U+1D4D5", "U+1D4D6", "U+1D4D7", "U+1D4D8", "U+1D4D9",
     "U+1D4DA", "U+1D4DB", "U+1D4DC", "U+1D4DD", "U+1D4DE", "U+1D4DF",
     "U+1D4E0", "U+1D4E1", "U+1D4E2", "U+1D4E3", "U+1D4E4", "U+1D4E5",
     "U+1D4E6", "U+1D4E7", "U+1D4E8", "U+1D4E9", "U+1D4EA", "U+1D4EB",
     "U+1D4EC", "U+1D4ED", "U+1D4EE", "U+1D4EF", "U+1D4F0", "U+1D4F1",
     "U+1D4F2", "U+1D4F3", "U+1D4F4", "U+1D4F5", "U+1D4F6", "U+1D4F7",
     "U+1D4F8", "U+1D4F9", "U+1D4FA", "U+1D4FB", "U+1D4FC", "U+1D4FD",
     "U+1D4FE", "U+1D4FF", "U+1D500", "U+1D501", "U+1D502", "U+1D503",
     "U+1D504", "U+1D505", "U+1D507", "U+1D508", "U+1D509", "U+1D50A",
     "U+1D50D", "U+1D50E", "U+1D50F", "U+1D510", "U+1D511", "U+1D512",
     "U+1D513", "U+1D514", "U+1D516", "U+1D517", "U+1D518", "U+1D519",
     "U+1D51A", "U+1D51B", "U+1D51C", "U+1D51E", "U+1D51F", "U+1D520",
     "U+1D521", "U+1D522", "U+1D523", "U+1D524", "U+1D525", "U+1D526",
     "U+1D527", "U+1D528", "U+1D529", "U+1D52A", "U+1D52B", "U+1D52C",
     "U+1D52D", "U+1D52E", "U+1D52F", "U+1D530", "U+1D531", "U+1D532",
     "U+1D533", "U+1D534", "U+1D535", "U+1D536", "U+1D537", "U+1D538",
     "U+1D539", "U+1D53B", "U+1D53C", "U+1D53D", "U+1D53E", "U+1D540",
     "U+1D541", "U+1D542", "U+1D543", "U+1D544", "U+1D546", "U+1D54A",
     "U+1D54B", "U+1D54C", "U+1D54D", "U+1D54E", "U+1D54F", "U+1D550",
     "U+1D552", "U+1D553", "U+1D554", "U+1D555", "U+1D556", "U+1D557",
     "U+1D558", "U+1D559", "U+1D55A", "U+1D55B", "U+1D55C", "U+1D55D",
     "U+1D55E", "U+1D55F", "U+1D560", "U+1D561", "U+1D562", "U+1D563",
     "U+1D564", "U+1D565", "U+1D566", "U+1D567", "U+1D568", "U+1D569",
     "U+1D56A", "U+1D56B", "U+1D56C", "U+1D56D", "U+1D56E", "U+1D56F",
     "U+1D570", "U+1D571", "U+1D572", "U+1D573", "U+1D574", "U+1D575",
     "U+1D576", "U+1D577", "U+1D578", "U+1D579", "U+1D57A", "U+1D57B",
     "U+1D57C", "U+1D57D", "U+1D57E", "U+1D57F", "U+1D580", "U+1D581",
     "U+1D582", "U+1D583", "U+1D584", "U+1D585", "U+1D586", "U+1D587",
     "U+1D588", "U+1D589", "U+1D58A", "U+1D58B", "U+1D58C", "U+1D58D",
     "U+1D58E", "U+1D58F", "U+1D590", "U+1D591", "U+1D592", "U+1D593",
     "U+1D594", "U+1D595", "U+1D596", "U+1D597", "U+1D598", "U+1D599",
     "U+1D59A", "U+1D59B", "U+1D59C", "U+1D59D", "U+1D59E", "U+1D59F",
     "U+1D5A0", "U+1D5A1", "U+1D5A2", "U+1D5A3", "U+1D5A4", "U+1D5A5",
     "U+1D5A6", "U+1D5A7", "U+1D5A8", "U+1D5A9", "U+1D5AA", "U+1D5AB",
     "U+1D5AC", "U+1D5AD", "U+1D5AE", "U+1D5AF", "U+1D5B0", "U+1D5B1",
     "U+1D5B2", "U+1D5B3", "U+1D5B4", "U+1D5B5", "U+1D5B6", "U+1D5B7",
     "U+1D5B8", "U+1D5B9", "U+1D5BA", "U+1D5BB", "U+1D5BC", "U+1D5BD",
     "U+1D5BE", "U+1D5BF", "U+1D5C0", "U+1D5C1", "U+1D5C2", "U+1D5C3",
     "U+1D5C4", "U+1D5C5", "U+1D5C6", "U+1D5C7", "U+1D5C8", "U+1D5C9",
     "U+1D5CA", "U+1D5CB", "U+1D5CC", "U+1D5CD", "U+1D5CE", "U+1D5CF",
     "U+1D5D0", "U+1D5D1", "U+1D5D2", "U+1D5D3", "U+1D5D4", "U+1D5D5",
     "U+1D5D6", "U+1D5D7", "U+1D5D8", "U+1D5D9", "U+1D5DA", "U+1D5DB",
     "U+1D5DC", "U+1D5DD", "U+1D5DE", "U+1D5DF", "U+1D5E0", "U+1D5E1",
     "U+1D5E2", "U+1D5E3", "U+1D5E4", "U+1D5E5", "U+1D5E6", "U+1D5E7",
     "U+1D5E8", "U+1D5E9", "U+1D5EA", "U+1D5EB", "U+1D5EC", "U+1D5ED",
     "U+1D5EE", "U+1D5EF", "U+1D5F0", "U+1D5F1", "U+1D5F2", "U+1D5F3",
     "U+1D5F4", "U+1D5F5", "U+1D5F6", "U+1D5F7", "U+1D5F8", "U+1D5F9",
     "U+1D5FA", "U+1D5FB", "U+1D5FC", "U+1D5FD", "U+1D5FE", "U+1D5FF",
     "U+1D600", "U+1D601", "U+1D602", "U+1D603", "U+1D604", "U+1D605",
     "U+1D606", "U+1D607", "U+1D608", "U+1D609", "U+1D60A", "U+1D60B",
     "U+1D60C", "U+1D60D", "U+1D60E", "U+1D60F", "U+1D610", "U+1D611",
     "U+1D612", "U+1D613", "U+1D614", "U+1D615", "U+1D616", "U+1D617",
     "U+1D618", "U+1D619", "U+1D61A", "U+1D61B", "U+1D61C", "U+1D61D",
     "U+1D61E", "U+1D61F", "U+1D620", "U+1D621", "U+1D622", "U+1D623",
     "U+1D624", "U+1D625", "U+1D626", "U+1D627", "U+1D628", "U+1D629",
     "U+1D62A", "U+1D62B", "U+1D62C", "U+1D62D", "U+1D62E", "U+1D62F",
     "U+1D630", "U+1D631", "U+1D632", "U+1D633", "U+1D634", "U+1D635",
     "U+1D636", "U+1D637", "U+1D638", "U+1D639", "U+1D63A", "U+1D63B",
     "U+1D63C", "U+1D63D", "U+1D63E", "U+1D63F", "U+1D640", "U+1D641",
     "U+1D642", "U+1D643", "U+1D644", "U+1D645", "U+1D646", "U+1D647",
     "U+1D648", "U+1D649", "U+1D64A", "U+1D64B", "U+1D64C", "U+1D64D",
     "U+1D64E", "U+1D64F", "U+1D650", "U+1D651", "U+1D652", "U+1D653",
     "U+1D654", "U+1D655", "U+1D656", "U+1D657", "U+1D658", "U+1D659",
     "U+1D65A", "U+1D65B", "U+1D65C", "U+1D65D", "U+1D65E", "U+1D65F",
     "U+1D660", "U+1D661", "U+1D662", "U+1D663", "U+1D664", "U+1D665",
     "U+1D666", "U+1D667", "U+1D668", "U+1D669", "U+1D66A", "U+1D66B",
     "U+1D66C", "U+1D66D", "U+1D66E", "U+1D66F", "U+1D670", "U+1D671",
     "U+1D672", "U+1D673", "U+1D674", "U+1D675", "U+1D676", "U+1D677",
     "U+1D678", "U+1D679", "U+1D67A", "U+1D67B", "U+1D67C", "U+1D67D",
     "U+1D67E", "U+1D67F", "U+1D680", "U+1D681", "U+1D682", "U+1D683",
     "U+1D684", "U+1D685", "U+1D686", "U+1D687", "U+1D688", "U+1D689",
     "U+1D68A", "U+1D68B", "U+1D68C", "U+1D68D", "U+1D68E", "U+1D68F",
     "U+1D690", "U+1D691", "U+1D692", "U+1D693", "U+1D694", "U+1D695",
     "U+1D696", "U+1D697", "U+1D698", "U+1D699", "U+1D69A", "U+1D69B",
     "U+1D69C", "U+1D69D", "U+1D69E", "U+1D69F", "U+1D6A0", "U+1D6A1",
     "U+1D6A2", "U+1D6A3", "U+1D6A4", "U+1D6A5", "U+1D6A8", "U+1D6A9",
     "U+1D6AA", "U+1D6AB", "U+1D6AC", "U+1D6AD", "U+1D6AE", "U+1D6AF",
     "U+1D6B0", "U+1D6B1", "U+1D6B2", "U+1D6B3", "U+1D6B4", "U+1D6B5",
     "U+1D6B6", "U+1D6B7", "U+1D6B8", "U+1D6B9", "U+1D6BA", "U+1D6BB",
     "U+1D6BC", "U+1D6BD", "U+1D6BE", "U+1D6BF", "U+1D6C0", "U+1D6C2",
     "U+1D6C3", "U+1D6C4", "U+1D6C5", "U+1D6C6", "U+1D6C7", "U+1D6C8",
     "U+1D6C9", "U+1D6CA", "U+1D6CB", "U+1D6CC", "U+1D6CD", "U+1D6CE",
     "U+1D6CF", "U+1D6D0", "U+1D6D1", "U+1D6D2", "U+1D6D3", "U+1D6D4",
     "U+1D6D5", "U+1D6D6", "U+1D6D7", "U+1D6D8", "U+1D6D9", "U+1D6DA",
     "U+1D6DC", "U+1D6DD", "U+1D6DE", "U+1D6DF", "U+1D6E0", "U+1D6E1",
     "U+1D6E2", "U+1D6E3", "U+1D6E4", "U+1D6E5", "U+1D6E6", "U+1D6E7",
     "U+1D6E8", "U+1D6E9", "U+1D6EA", "U+1D6EB", "U+1D6EC", "U+1D6ED",
     "U+1D6EE", "U+1D6EF", "U+1D6F0", "U+1D6F1", "U+1D6F2", "U+1D6F3",
     "U+1D6F4", "U+1D6F5", "U+1D6F6", "U+1D6F7", "U+1D6F8", "U+1D6F9",
     "U+1D6FA", "U+1D6FC", "U+1D6FD", "U+1D6FE", "U+1D6FF", "U+1D700",
     "U+1D701", "U+1D702", "U+1D703", "U+1D704", "U+1D705", "U+1D706",
     "U+1D707", "U+1D708", "U+1D709", "U+1D70A", "U+1D70B", "U+1D70C",
     "U+1D70D", "U+1D70E", "U+1D70F", "U+1D710", "U+1D711", "U+1D712",
     "U+1D713", "U+1D714", "U+1D716", "U+1D717", "U+1D718", "U+1D719",
     "U+1D71A", "U+1D71B", "U+1D71C", "U+1D71D", "U+1D71E", "U+1D71F",
     "U+1D720", "U+1D721", "U+1D722", "U+1D723", "U+1D724", "U+1D725",
     "U+1D726", "U+1D727", "U+1D728", "U+1D729", "U+1D72A", "U+1D72B",
     "U+1D72C", "U+1D72D", "U+1D72E", "U+1D72F", "U+1D730", "U+1D731",
     "U+1D732", "U+1D733", "U+1D734", "U+1D736", "U+1D737", "U+1D738",
     "U+1D739", "U+1D73A", "U+1D73B", "U+1D73C", "U+1D73D", "U+1D73E",
     "U+1D73F", "U+1D740", "U+1D741", "U+1D742", "U+1D743", "U+1D744",
     "U+1D745", "U+1D746", "U+1D747", "U+1D748", "U+1D749", "U+1D74A",
     "U+1D74B", "U+1D74C", "U+1D74D", "U+1D74E", "U+1D750", "U+1D751",
     "U+1D752", "U+1D753", "U+1D754", "U+1D755", "U+1D756", "U+1D757",
     "U+1D758", "U+1D759", "U+1D75A", "U+1D75B", "U+1D75C", "U+1D75D",
     "U+1D75E", "U+1D75F", "U+1D760", "U+1D761", "U+1D762", "U+1D763",
     "U+1D764", "U+1D765", "U+1D766", "U+1D767", "U+1D768", "U+1D769",
     "U+1D76A", "U+1D76B", "U+1D76C", "U+1D76D", "U+1D76E", "U+1D770",
     "U+1D771", "U+1D772", "U+1D773", "U+1D774", "U+1D775", "U+1D776",
     "U+1D777", "U+1D778", "U+1D779", "U+1D77A", "U+1D77B", "U+1D77C",
     "U+1D77D", "U+1D77E", "U+1D77F", "U+1D780", "U+1D781", "U+1D782",
     "U+1D783", "U+1D784", "U+1D785", "U+1D786", "U+1D787", "U+1D788",
     "U+1D78A", "U+1D78B", "U+1D78C", "U+1D78D", "U+1D78E", "U+1D78F",
     "U+1D790", "U+1D791", "U+1D792", "U+1D793", "U+1D794", "U+1D795",
     "U+1D796", "U+1D797", "U+1D798", "U+1D799", "U+1D79A", "U+1D79B",
     "U+1D79C", "U+1D79D", "U+1D79E", "U+1D79F", "U+1D7A0", "U+1D7A1",
     "U+1D7A2", "U+1D7A3", "U+1D7A4", "U+1D7A5", "U+1D7A6", "U+1D7A7",
     "U+1D7A8", "U+1D7AA", "U+1D7AB", "U+1D7AC", "U+1D7AD", "U+1D7AE",
     "U+1D7AF", "U+1D7B0", "U+1D7B1", "U+1D7B2", "U+1D7B3", "U+1D7B4",
     "U+1D7B5", "U+1D7B6", "U+1D7B7", "U+1D7B8", "U+1D7B9", "U+1D7BA",
     "U+1D7BB", "U+1D7BC", "U+1D7BD", "U+1D7BE", "U+1D7BF", "U+1D7C0",
     "U+1D7C1", "U+1D7C2", "U+1D7C4", "U+1D7C5", "U+1D7C6", "U+1D7C7",
     "U+1D7C8", "U+1D7C9", "U+1D7CA", "U+1D7CB", "U+1DF00", "U+1DF01",
     "U+1DF02", "U+1DF03", "U+1DF04", "U+1DF05", "U+1DF06", "U+1DF07",
     "U+1DF08", "U+1DF09", "U+1DF0B", "U+1DF0C", "U+1DF0D", "U+1DF0E",
     "U+1DF0F", "U+1DF10", "U+1DF11", "U+1DF12", "U+1DF13", "U+1DF14",
     "U+1DF15", "U+1DF16", "U+1DF17", "U+1DF18", "U+1DF19", "U+1DF1A",
     "U+1DF1B", "U+1DF1C", "U+1DF1D", "U+1DF1E", "U+1E900", "U+1E901",
     "U+1E902", "U+1E903", "U+1E904", "U+1E905", "U+1E906", "U+1E907",
     "U+1E908", "U+1E909", "U+1E90A", "U+1E90B", "U+1E90C", "U+1E90D",
     "U+1E90E", "U+1E90F", "U+1E910", "U+1E911", "U+1E912", "U+1E913",
     "U+1E914", "U+1E915", "U+1E916", "U+1E917", "U+1E918", "U+1E919",
     "U+1E91A", "U+1E91B", "U+1E91C", "U+1E91D", "U+1E91E", "U+1E91F",
     "U+1E920", "U+1E921", "U+1E922", "U+1E923", "U+1E924", "U+1E925",
     "U+1E926", "U+1E927", "U+1E928", "U+1E929", "U+1E92A", "U+1E92B",
     "U+1E92C", "U+1E92D", "U+1E92E", "U+1E92F", "U+1E930", "U+1E931",
     "U+1E932", "U+1E933", "U+1E934", "U+1E935", "U+1E936", "U+1E937",
     "U+1E938", "U+1E939", "U+1E93A", "U+1E93B", "U+1E93C", "U+1E93D",
     "U+1E93E", "U+1E93F", "U+1E940", "U+1E941", "U+1E942", "U+1E943",
     "U+1F130", "U+1F131", "U+1F132", "U+1F133", "U+1F134", "U+1F135",
     "U+1F136", "U+1F137", "U+1F138", "U+1F139", "U+1F13A", "U+1F13B",
     "U+1F13C", "U+1F13D", "U+1F13E", "U+1F13F", "U+1F140", "U+1F141",
     "U+1F142", "U+1F143", "U+1F144", "U+1F145", "U+1F146", "U+1F147",
     "U+1F148", "U+1F149", "U+1F150", "U+1F151", "U+1F152", "U+1F153",
     "U+1F154", "U+1F155", "U+1F156", "U+1F157", "U+1F158", "U+1F159",
     "U+1F15A", "U+1F15B", "U+1F15C", "U+1F15D", "U+1F15E", "U+1F15F",
     "U+1F160", "U+1F161", "U+1F162", "U+1F163", "U+1F164", "U+1F165",
     "U+1F166", "U+1F167", "U+1F168", "U+1F169", "U+1F170", "U+1F171",
     "U+1F172", "U+1F173", "U+1F174", "U+1F175", "U+1F176", "U+1F177",
     "U+1F178", "U+1F179", "U+1F17A", "U+1F17B", "U+1F17C", "U+1F17D",
     "U+1F17E", "U+1F17F", "U+1F180", "U+1F181", "U+1F182", "U+1F183",
     "U+1F184", "U+1F185", "U+1F186", "U+1F187", "U+1F188", "U+1F189"}

\* The capital I with a dot above and the combining dot above: lower()
\* makes "i" and the combining dot of the former.
I_WITH_DOT == "U+0130"

COMBINING_DOT == "U+0307"

CAPITAL_SIGMA == "Σ"

SMALL_SIGMA == "σ"

FINAL_SIGMA == "ς"

\* The capital sigma s[i] ends a word: the nearest character before it that
\* is not case-ignorable is cased, and the nearest after it, if any, is not.
final_sigma(s, i) ==
    LET P == {j \in 1..(i - 1) : s[j] \notin CaseIgnorable}
        N == {j \in (i + 1)..Len(s) : s[j] \notin CaseIgnorable}
    IN  /\ P # {}
        /\ s[CHOOSE j \in P : \A k \in P : k <= j] \in Cased
        /\ \/ N = {}
           \/ s[CHOOSE j \in N : \A k \in N : j <= k] \notin Cased

\* s.lower(): a capital sigma becomes the final sigma at the end of a word
\* and the small sigma elsewhere, the capital I with a dot above becomes two
\* characters, and every other character what LowerMap makes of it.
lower(s) ==
    LET \* the first character of what lower() makes of s[i]
        lower_at(i) ==
            IF s[i] = CAPITAL_SIGMA
            THEN (IF final_sigma(s, i) THEN FINAL_SIGMA ELSE SMALL_SIGMA)
            ELSE IF s[i] = I_WITH_DOT THEN "i"
            ELSE IF s[i] \in DOMAIN LowerMap THEN LowerMap[s[i]]
            ELSE s[i]
        \* the number of capital I with a dot above among s[1..i]
        dots(i) == Cardinality({j \in 1..i : s[j] = I_WITH_DOT})
    IN  [k \in 1..(Len(s) + dots(Len(s))) |->
            LET i == CHOOSE i \in 1..Len(s) :
                        i + dots(i - 1) <= k /\ k <= i + dots(i)
            IN  IF k = i + dots(i - 1) THEN lower_at(i) ELSE COMBINING_DOT]

\* name = None; version = None; system = False
PluginInit ==
    [plugins |-> <<>>, name |-> None, version |-> None, system |-> FALSE,
     exc |-> "none"]

\* "finish the previous plugin, if any"
finish_plugin(acc) ==
    IF acc.name # None
    THEN Append(acc.plugins, Plugin(acc.name, acc.version, acc.system))
    ELSE acc.plugins

\* start_plugin without `system = False`.
start_plugin_keep_system(acc, data) ==
    [acc EXCEPT !.plugins = finish_plugin(acc), !.name = data,
                !.version = None]

\* "start a new plugin": name = data; version = None; system = False
start_plugin(acc, data) ==
    [acc EXCEPT !.plugins = finish_plugin(acc), !.name = data,
                !.version = None, !.system = FALSE]

\* The plugin-version branch.  version, etc = data.split(ENCODED_COMMA)
\* raises ValueError unless the split gives exactly two parts.
set_version(acc, data) ==
    IF contains(data, ENCODED_COMMA)
    THEN LET parts == split_str(data, ENCODED_COMMA)
         IN  IF Len(parts) # 2 THEN [acc EXCEPT !.exc = "ValueError"]
             ELSE [acc EXCEPT !.version = parts[1],
                              !.system = (lower(strip(parts[2])) = S_system)]
    ELSE [acc EXCEPT !.version = data, !.system = FALSE]

\* One turn of the loop over the decoded tuples.
plugin_step(acc, kind, data) ==
    IF kind = K_plugin_name THEN start_plugin(acc, data)
    ELSE IF kind = K_plugin_version THEN set_version(acc, data)
    ELSE acc

RECURSIVE PluginLoop(_, _)
PluginLoop(rest, acc) ==
    IF acc.exc # "none" THEN Raise(acc.exc)
    ELSE IF rest = <<>> THEN Ok(finish_plugin(acc))
    ELSE IF Len(Head(rest)) # 4 THEN Raise("ValueError")
    ELSE PluginLoop(Tail(rest), plugin_step(acc, Head(rest)[3], Head(rest)[4]))

_parse_plugin_list(text) ==
    LET p == _parse_machine_readable_output(text)
    IN  IF p.exc # "none" THEN p ELSE PluginLoop(p.value, PluginInit)

(***************************************************************************)
(* Vagrant._parse_config                                                   *)
(***************************************************************************)
\* The maxsplit argument of line.strip().split(None, 1).
ConfigMaxSplit == 1

\* started_after with started_parsing set from the first line on.
started_after_always(started_parsing, line) == TRUE

\* if line.strip().startswith('Host ') and not started_parsing:
\*     started_parsing = True
started_after(started_parsing, line) ==
    started_parsing \/ startswith(strip(line), S_Host)

\* if not started_parsing or not line.strip() or line.strip().startswith('#'):
\*     continue
skipped(started_parsing, line) ==
    \/ ~started_parsing
    \/ strip(line) = <<>>
    \/ startswith(strip(line), <<"#">>)

\* unquote removing one quote from each end, and only from a value that has
\* one at both ends.
unquote_one_pair(value) ==
    IF Len(value) >= 2 /\ value[1] = "\"" /\ value[Len(value)] = "\""
    THEN SubSeq(value, 2, Len(value) - 1)
    ELSE value

\* value.strip('"')
unquote(value) == strip_chars(value, {"\""})

RECURSIVE ConfigLoop(_, _, _)
ConfigLoop(lines, started_parsing, conf) ==
    IF lines = <<>> THEN Ok(conf)
    ELSE LET line == Head(lines)
             started == started_after(started_parsing, line)
             kv == split_ws(strip(line), ConfigMaxSplit)
         IN  IF skipped(started, line)
             THEN ConfigLoop(Tail(lines), started, conf)
             ELSE IF Len(kv) # 2 THEN Raise("ValueError")
             ELSE ConfigLoop(Tail(lines), started,
                             dict_set(conf, kv[1], unquote(kv[2])))

_parse_config(ssh_config) ==
    ConfigLoop(splitlines(ssh_config), FALSE, EmptyDict)

(***************************************************************************)
(* SandboxVagrant._parse_vagrant_sandbox_status                            *)
(***************************************************************************)
S_Usage == <<"U", "s", "a", "g", "e", ":">>

S_not_installed ==
    <<"n", "o", "t", " ", "i", "n", "s", "t", "a", "l", "l", "e", "d">>

S_not_created == <<"n", "o", "t", " ", "c", "r", "e", "a", "t", "e", "d">>

S_unknown == <<"u", "n", "k", "n", "o", "w", "n">>

\* [token.strip() for token in vagrant_output.split(' ')]: split at every
\* single space, so that the empty text gives one empty token.
sandbox_tokens(vagrant_output) ==
    LET parts == split(vagrant_output, " ", Len(vagrant_output))
    IN  [i \in 1..Len(parts) |-> strip(parts[i])]

\* tokens[-2] of a one-token list raises IndexError.
_parse_vagrant_sandbox_status(vagrant_output) ==
    LET tokens == sandbox_tokens(vagrant_output)
        n == Len(tokens)
    IN  IF tokens[1] = S_Usage THEN Ok(S_not_installed)
        ELSE IF n < 2 THEN Raise("IndexError")
        ELSE IF tokens[n - 1] \o <<" ">> \o tokens[n] = S_not_created
             THEN Ok(S_unknown)
        ELSE Ok(tokens[n])

(***************************************************************************)
(* Vagrant.status of vagrant.py, the module of the releases before the     *)
(* package: the scan of the output of `vagrant status`.  The module is     *)
(* Python 2: a str is a byte string, splitlines() breaks at "\n", "\r"     *)
(* and "\r\n" only, and dict.values() is a list.                           *)
(***************************************************************************)
S_Current_VM_states ==
    <<"C", "u", "r", "r", "e", "n", "t", " ", "V", "M", " ", "s", "t", "a",
      "t", "e", "s", ":">>

\* The characters a Python 2 str.splitlines() breaks a line at.
ByteLineBoundaries == {"\n", "\r"}

RECURSIVE ByteSplitLinesFrom(_, _)
ByteSplitLinesFrom(s, from) ==
    LET i == find_in(s, ByteLineBoundaries, from)
    IN  IF from > Len(s) THEN <<>>
        ELSE IF i = 0 THEN <<SubSeq(s, from, Len(s))>>
        ELSE <<SubSeq(s, from, i - 1)>>
             \o ByteSplitLinesFrom(
                    s, IF s[i] = "\r" /\ i < Len(s) /\ s[i + 1] = "\n"
                       THEN i + 2 ELSE i + 1)

\* output.splitlines() of a Python 2 str
byte_splitlines(s) == ByteSplitLinesFrom(s, 1)

\* The characters strip() and split(None) of a Python 2 str take for
\* whitespace.
ByteWhitespace == {" ", "\t", "\n", "\r", "\f", VT}

\* line.strip() of a Python 2 str
byte_strip(s) == strip_chars(s, ByteWhitespace)

RECURSIVE ByteSplitWsFrom(_, _, _)
ByteSplitWsFrom(s, maxsplit, from) ==
    LET b == find_not_in(s, ByteWhitespace, from)
        e == find_in(s, ByteWhitespace, b)
    IN  IF b = 0 THEN <<>>
        ELSE IF maxsplit = 0 \/ e = 0 THEN <<SubSeq(s, b, Len(s))>>
        ELSE <<SubSeq(s, b, e - 1)>> \o ByteSplitWsFrom(s, maxsplit - 1, e)

\* s.split(None, maxsplit) of a Python 2 str
byte_split_ws(s, maxsplit) == ByteSplitWsFrom(s, maxsplit, 1)

\* What the method returns for the statuses the loop has collected.
status_of(statuses) ==
    IF Cardinality(DOMAIN statuses) = 0 THEN Ok(None)
    ELSE IF Cardinality(DOMAIN statuses) = 1
    THEN Ok(statuses[CHOOSE k \in DOMAIN statuses : TRUE])
    ELSE Ok(statuses)

\* One turn of `for line in output.splitlines()`.  state is the parsing
\* state variable of the source; 4 stands for the break out of the loop
\* and 5 for the ValueError of unpacking a split of one element.
scan_step(acc, line) ==
    IF acc.state = 1 /\ startswith(byte_strip(line), S_Current_VM_states)
    THEN [acc EXCEPT !.state = 2]
    ELSE IF acc.state = 2 /\ byte_strip(line) = <<>>
    THEN [acc EXCEPT !.state = 3]
    ELSE IF acc.state = 3 /\ byte_strip(line) # <<>>
    THEN IF Len(byte_split_ws(byte_strip(line), 1)) # 2
         THEN [acc EXCEPT !.state = 5]
         ELSE [acc EXCEPT !.statuses =
                  dict_set(@, byte_split_ws(byte_strip(line), 1)[1],
                           byte_split_ws(byte_strip(line), 1)[2])]
    ELSE IF acc.state = 3 THEN [acc EXCEPT !.state = 4]
    ELSE acc

RECURSIVE ScanLoop(_, _, _)
ScanLoop(lines, i, acc) ==
    IF i > Len(lines) \/ acc.state \in {4, 5} THEN acc
    ELSE ScanLoop(lines, i + 1, scan_step(acc, lines[i]))

\* Vagrant.status of vagrant.py, from the output of the command on.
status_scan(output_text) ==
    LET acc == ScanLoop(byte_splitlines(output_text), 1,
                        [state |-> 1, statuses |-> EmptyDict])
    IN  IF acc.state = 5 THEN Raise("ValueError")
        ELSE status_of(acc.statuses)

RECURSIVE join(_, _)
\* sep.join(fields)
join(fields, sep) ==
    IF fields = <<>> THEN <<>>
    ELSE IF Len(fields) = 1 THEN fields[1]
    ELSE fields[1] \o sep \o join(Tail(fields), sep)

(***************************************************************************)
(* The Vagrant object                                                      *)
(*                                                                         *)
(* A method is an operator from the object before the call to the object   *)
(* after it.  The object is the record `self`: the fields _cached_conf and *)
(* _vagrant_exe of the source, the subprocesses the call has launched so   *)
(* far (`launched`: the command line, the exit code and what the process   *)
(* wrote to stdout and stderr) and what the call returns or raises (`ret`).*)
(* A subprocess is a record `proc` of its exit code, the decoded text of   *)
(* its stdout and the text of its stderr; which one a launch gets is the   *)
(* environment's choice.  An entry of _cached_conf is NoConf (Python's     *)
(* None) or Conf(d) for a dict d.                                          *)
(***************************************************************************)
A_up == <<"u", "p">>

A_provision == <<"p", "r", "o", "v", "i", "s", "i", "o", "n">>

A_reload == <<"r", "e", "l", "o", "a", "d">>

A_suspend == <<"s", "u", "s", "p", "e", "n", "d">>

A_resume == <<"r", "e", "s", "u", "m", "e">>

A_halt == <<"h", "a", "l", "t">>

A_destroy == <<"d", "e", "s", "t", "r", "o", "y">>

A_force == <<"-", "-", "f", "o", "r", "c", "e">>

A_status == <<"s", "t", "a", "t", "u", "s">>

A_machine_readable ==
    <<"-", "-", "m", "a", "c", "h", "i", "n", "e", "-", "r", "e", "a", "d",
      "a", "b", "l", "e">>

A_ssh_config == <<"s", "s", "h", "-", "c", "o", "n", "f", "i", "g">>

A_box == <<"b", "o", "x">>

A_list == <<"l", "i", "s", "t">>

A_plugin == <<"p", "l", "u", "g", "i", "n">>

A_no_provision ==
    <<"-", "-", "n", "o", "-", "p", "r", "o", "v", "i", "s", "i", "o", "n">>

A_provision_flag == <<"-", "-", "p", "r", "o", "v", "i", "s", "i", "o", "n">>

A_provider_eq == <<"-", "-", "p", "r", "o", "v", "i", "d", "e", "r", "=">>

A_provider == <<"-", "-", "p", "r", "o", "v", "i", "d", "e", "r">>

A_provision_with ==
    <<"-", "-", "p", "r", "o", "v", "i", "s", "i", "o", "n", "-", "w", "i",
      "t", "h">>

A_version == <<"-", "-", "v", "e", "r", "s", "i", "o", "n">>

A_init == <<"i", "n", "i", "t">>

A_add == <<"a", "d", "d">>

A_update == <<"u", "p", "d", "a", "t", "e">>

A_remove == <<"r", "e", "m", "o", "v", "e">>

A_snapshot == <<"s", "n", "a", "p", "s", "h", "o", "t">>

A_push == <<"p", "u", "s", "h">>

A_pop == <<"p", "o", "p">>

A_save == <<"s", "a", "v", "e">>

A_restore == <<"r", "e", "s", "t", "o", "r", "e">>

A_delete == <<"d", "e", "l", "e", "t", "e">>

A_sandbox == <<"s", "a", "n", "d", "b", "o", "x">>

A_commit == <<"c", "o", "m", "m", "i", "t">>

A_off == <<"o", "f", "f">>

A_on == <<"o", "n">>

A_rollback == <<"r", "o", "l", "l", "b", "a", "c", "k">>

S_Vagrant == <<"V", "a", "g", "r", "a", "n", "t", " ">>

NO_SNAPSHOTS_PUSHED ==
    <<"N", "o", " ", "p", "u", "s", "h", "e", "d", " ", "s", "n", "a", "p",
      "s", "h", "o", "t", " ", "f", "o", "u", "n", "d", "!">>

NO_SNAPSHOTS_TAKEN ==
    <<"N", "o", " ", "s", "n", "a", "p", "s", "h", "o", "t", "s", " ", "h",
      "a", "v", "e", " ", "b", "e", "e", "n", " ", "t", "a", "k", "e", "n",
      " ", "y", "e", "t", "!">>

VAGRANT_NOT_FOUND_WARNING ==
    <<"T", "h", "e", " ", "V", "a", "g", "r", "a", "n", "t", " ", "e", "x",
      "e", "c", "u", "t", "a", "b", "l", "e", " ", "c", "a", "n", "n", "o",
      "t", " ", "b", "e", " ", "f", "o", "u", "n", "d", ".", " ", "P", "l",
      "e", "a", "s", "e", " ", "c", "h", "e", "c", "k", " ", "i", "f", " ",
      "i", "t", " ", "i", "s", " ", "i", "n", " ", "t", "h", "e", " ", "s",
      "y", "s", "t", "e", "m", " ", "p", "a", "t", "h", ".">>

K_User == <<"U", "s", "e", "r">>

K_HostName == <<"H", "o", "s", "t", "N", "a", "m", "e">>

K_Port == <<"P", "o", "r", "t">>

K_IdentityFile ==
    <<"I", "d", "e", "n", "t", "i", "t", "y", "F", "i", "l", "e">>

\* The path which('vagrant') finds.
VAGRANT_PATH == <<"/", "v">>

NoConf == [is_none |-> TRUE, conf |-> EmptyDict]

Conf(d) == [is_none |-> FALSE, conf |-> d]

\* self._cached_conf.get(vm_name)
cached_get(cache, vm_name) ==
    IF vm_name \in DOMAIN cache THEN cache[vm_name] ELSE NoConf

\* subprocess.CalledProcessError as check_call and check_output raise it:
\* stderr is handed to err_fh and not captured, so the error carries none.
CalledProcessError(returncode, stdout) ==
    [exc |-> "CalledProcessError", value |-> <<>>,
     returncode |-> returncode, output |-> stdout, stderr |-> None]

\* get_vagrant_executable(): which('vagrant'), None when there is none.
get_vagrant_executable == IF on_path THEN VAGRANT_PATH ELSE None

\* kept_args dropping every falsy argument, the empty string too.
kept_args_truthy(args) ==
    SelectSeq(args, LAMBDA arg : arg # None /\ arg # <<>>)

\* [arg for arg in args if arg is not None]
kept_args(args) == SelectSeq(args, LAMBDA arg : arg # None)

\* The executable after `if self._vagrant_exe is None: self._vagrant_exe =
\* get_vagrant_executable()`.
found_exe(self) ==
    IF self._vagrant_exe = None THEN get_vagrant_executable
    ELSE self._vagrant_exe

\* _make_vagrant_command without `if not self._vagrant_exe: raise`.
_make_vagrant_command_unchecked(self, args) ==
    [self EXCEPT !._vagrant_exe = found_exe(self),
                 !.ret = Ok(<<found_exe(self)>> \o kept_args(args))]

_make_vagrant_command(self, args) ==
    IF found_exe(self) = None \/ found_exe(self) = <<>>
    THEN [self EXCEPT
             !._vagrant_exe = found_exe(self),
             !.ret = RaiseWith("RuntimeError", VAGRANT_NOT_FOUND_WARNING)]
    ELSE [self EXCEPT !._vagrant_exe = found_exe(self),
                      !.ret = Ok(<<found_exe(self)>> \o kept_args(args))]

\* The subprocess `proc` launched with the command line `command`.
launch(self, command, proc) ==
    [self EXCEPT !.launched =
        Append(@, [command |-> command, returncode |-> proc.returncode,
                   stdout |-> proc.stdout, stderr |-> proc.stderr])]

\* subprocess.check_call raises CalledProcessError on a non-zero exit; the
\* method returns None.
_call_vagrant_command(self, args, proc) ==
    LET made == _make_vagrant_command(self, args)
    IN  IF made.ret.exc # "none" THEN made
        ELSE IF proc.returncode # 0
        THEN [launch(made, made.ret.value, proc) EXCEPT
                 !.ret = CalledProcessError(proc.returncode, None)]
        ELSE [launch(made, made.ret.value, proc) EXCEPT !.ret = Ok(None)]

\* subprocess.check_output raises CalledProcessError on a non-zero exit and
\* gives the stdout otherwise.
_run_vagrant_command(self, args, proc) ==
    LET made == _make_vagrant_command(self, args)
    IN  IF made.ret.exc # "none" THEN made
        ELSE IF proc.returncode # 0
        THEN [launch(made, made.ret.value, proc) EXCEPT
                 !.ret = CalledProcessError(proc.returncode, proc.stdout)]
        ELSE [launch(made, made.ret.value, proc) EXCEPT
                 !.ret = Ok(proc.stdout)]

\* The statements after a call: when the call raised, the method ends with
\* what it raised; otherwise `rest` goes on from the object `done` the call
\* left (done.ret holds what the call returned).
Then(done, rest(_)) ==
    CHOOSE end \in {IF d.ret.exc # "none" THEN d ELSE rest(d) : d \in {done}} :
        TRUE

\* invalidate clearing the entry of every machine.
invalidate_all(self, vm_name) ==
    [self EXCEPT !._cached_conf =
        [k \in DOMAIN dict_set(@, vm_name, NoConf) |-> NoConf]]

\* self._cached_conf[vm_name] = None  # remove cached configuration
invalidate(self, vm_name) ==
    [self EXCEPT !._cached_conf = dict_set(@, vm_name, NoConf)]

\* Python's truth of a str or None.
truthy(x) == x # None /\ x # <<>>

\* Vagrant.ssh_config
ssh_config_of(self, vm_name, proc) ==
    _run_vagrant_command(self, <<A_ssh_config, vm_name>>, proc)

\* conf that asks vagrant each time, whatever is cached.
conf_uncached(self, ssh_cfg, vm_name, proc) ==
    LET got == IF ssh_cfg = None THEN ssh_config_of(self, vm_name, proc)
               ELSE [self EXCEPT !.ret = Ok(ssh_cfg)]
        c == _parse_config(got.ret.value)
    IN  IF got.ret.exc # "none" THEN got
        ELSE IF c.exc # "none" THEN [got EXCEPT !.ret = c]
        ELSE [got EXCEPT !._cached_conf = dict_set(@, vm_name, Conf(c.value)),
                         !.ret = Ok(c.value)]

\* conf that returns what is cached even when a ssh_config is given.
conf_cached_first(self, ssh_cfg, vm_name, proc) ==
    IF cached_get(self._cached_conf, vm_name).is_none
    THEN conf_uncached(self, ssh_cfg, vm_name, proc)
    ELSE [self EXCEPT !.ret = Ok(self._cached_conf[vm_name].conf)]

\* Vagrant.conf.  ssh_cfg is the parameter ssh_config: a text, or None for
\* the text `vagrant ssh-config` prints.
conf(self, ssh_cfg, vm_name, proc) ==
    IF cached_get(self._cached_conf, vm_name).is_none \/ ssh_cfg # None
    THEN LET got == IF ssh_cfg = None THEN ssh_config_of(self, vm_name, proc)
                    ELSE [self EXCEPT !.ret = Ok(ssh_cfg)]
             c == _parse_config(got.ret.value)
         IN  IF got.ret.exc # "none" THEN got
             ELSE IF c.exc # "none" THEN [got EXCEPT !.ret = c]
             ELSE [got EXCEPT
                      !._cached_conf = dict_set(@, vm_name, Conf(c.value)),
                      !.ret = Ok(c.value)]
    ELSE [self EXCEPT !.ret = Ok(self._cached_conf[vm_name].conf)]

\* except_conf with `except Exception`: whatever conf raises is passed over.
except_conf_all(cached) == [cached EXCEPT !.ret = Ok(None)]

\* try: self.conf(vm_name=vm_name) except subprocess.CalledProcessError: pass
except_conf(cached) ==
    IF cached.ret.exc \notin {"none", "CalledProcessError"} THEN cached
    ELSE [cached EXCEPT !.ret = Ok(None)]

\* The arguments of `vagrant up` as up makes them of its parameters.
\*   provider_arg = '--provider=%s' % provider if provider else None
\*   prov_with_arg = None if provision_with is None else '--provision-with'
\*   providers_arg = None if provision_with is None
\*                   else ','.join(provision_with)
\*   if provision is not None: no_provision = None
\*   no_provision_arg = '--no-provision' if no_provision else None
\*   provision_arg = None if provision is None
\*                   else '--provision' if provision else '--no-provision'
\* `provisioning` is the parameter provision.
up_args(no_provision, provider, vm_name, provisioning, provision_with) ==
    <<A_up, vm_name,
      IF provisioning = None /\ no_provision = True THEN A_no_provision
      ELSE None,
      IF provisioning = None THEN None
      ELSE IF provisioning = True THEN A_provision_flag ELSE A_no_provision,
      IF truthy(provider) THEN A_provider_eq \o provider ELSE None,
      IF provision_with = None THEN None ELSE A_provision_with,
      IF provision_with = None THEN None ELSE join(provision_with, <<",">>)>>

\* up that runs the command and does not go on to conf.
up_without_conf(self, no_provision, provider, vm_name, provisioning, provision_with, proc, proc2) ==
    _call_vagrant_command(
        self, up_args(no_provision, provider, vm_name, provisioning,
                      provision_with), proc)

\* Vagrant.up
up(self, no_provision, provider, vm_name, provisioning, provision_with, proc, proc2) ==
    Then(_call_vagrant_command(
             self, up_args(no_provision, provider, vm_name, provisioning,
                           provision_with), proc),
         LAMBDA started : except_conf(conf(started, None, vm_name, proc2)))

\* Vagrant.provision
provision(self, vm_name, provision_with, proc) ==
    _call_vagrant_command(
        self,
        <<A_provision, vm_name,
          IF provision_with = None THEN None ELSE A_provision_with,
          IF provision_with = None THEN None
          ELSE join(provision_with, <<",">>)>>,
        proc)

\* The arguments of `vagrant reload` as reload makes them of its parameters.
reload_args(vm_name, provisioning, provision_with) ==
    <<A_reload, vm_name,
      IF provisioning = None THEN None
      ELSE IF provisioning = True THEN A_provision_flag ELSE A_no_provision,
      IF provision_with = None THEN None ELSE A_provision_with,
      IF provision_with = None THEN None ELSE join(provision_with, <<",">>)>>

\* reload that removes the cached configuration as halt does.
reload_invalidating(self, vm_name, provisioning, provision_with, proc) ==
    invalidate(
        _call_vagrant_command(
            self, reload_args(vm_name, provisioning, provision_with), proc),
        vm_name)

\* Vagrant.reload
reload(self, vm_name, provisioning, provision_with, proc) ==
    _call_vagrant_command(
        self, reload_args(vm_name, provisioning, provision_with), proc)

\* then_invalidate that invalidates whether the command raised or not.
then_invalidate_always(done, vm_name) == invalidate(done, vm_name)

\* The command, and after it, when it raised nothing, the invalidation.
then_invalidate(done, vm_name) ==
    IF done.ret.exc # "none" THEN done ELSE invalidate(done, vm_name)

\* Vagrant.suspend
suspend(self, vm_name, proc) ==
    then_invalidate(
        _call_vagrant_command(self, <<A_suspend, vm_name>>, proc), vm_name)

\* Vagrant.resume
resume(self, vm_name, proc) ==
    then_invalidate(
        _call_vagrant_command(self, <<A_resume, vm_name>>, proc), vm_name)

\* Vagrant.halt; force_opt = '--force' if force else None
halt(self, vm_name, force, proc) ==
    then_invalidate(
        _call_vagrant_command(
            self, <<A_halt, vm_name, IF force = True THEN A_force ELSE None>>,
            proc),
        vm_name)

\* Vagrant.destroy
destroy(self, vm_name, proc) ==
    then_invalidate(
        _call_vagrant_command(self, <<A_destroy, vm_name, A_force>>, proc),
        vm_name)

\* The output of a command handed to a parser.
parse_with(ran, parser(_)) ==
    IF ran.ret.exc # "none" THEN ran
    ELSE [ran EXCEPT !.ret = parser(ran.ret.value)]

\* Vagrant.status
status(self, vm_name, proc) ==
    parse_with(
        _run_vagrant_command(
            self, <<A_status, A_machine_readable, vm_name>>, proc),
        _parse_status)

\* Vagrant.box_list
box_list(self, proc) ==
    parse_with(
        _run_vagrant_command(self, <<A_box, A_list, A_machine_readable>>, proc),
        _parse_box_list)

\* Vagrant.plugin_list
plugin_list(self, proc) ==
    parse_with(
        _run_vagrant_command(
            self, <<A_plugin, A_list, A_machine_readable>>, proc),
        _parse_plugin_list)

\* re.search(r'^Vagrant (?P<version>.+)$', output): the text after
\* "Vagrant " when it is one line that is not empty, with or without the
\* newline that ends it; otherwise there is no match and version raises
\* Exception.  `text` is the output.
version_of(text) ==
    LET rest == SubSeq(text, Len(S_Vagrant) + 1, Len(text))
        found == IF rest # <<>> /\ rest[Len(rest)] = "\n"
                 THEN SubSeq(rest, 1, Len(rest) - 1) ELSE rest
    IN  IF /\ startswith(text, S_Vagrant)
           /\ found # <<>>
           /\ \A i \in 1..Len(found) : found[i] # "\n"
        THEN Ok(found)
        ELSE Raise("Exception")

\* Vagrant.version
version(self, proc) ==
    parse_with(_run_vagrant_command(self, <<A_version>>, proc), version_of)

\* Vagrant.init
init(self, box_name, box_url, proc) ==
    _call_vagrant_command(self, <<A_init, box_name, box_url>>, proc)

\* Vagrant.box_add
\*   cmd = ['box', 'add', name, url, force_opt]
\*   if provider is not None: cmd += ['--provider', provider]
box_add(self, name, url, provider, force, proc) ==
    _call_vagrant_command(
        self,
        <<A_box, A_add, name, url, IF force = True THEN A_force ELSE None>>
            \o (IF provider = None THEN <<>> ELSE <<A_provider, provider>>),
        proc)

\* Vagrant.snapshot_push
snapshot_push(self, proc) ==
    _call_vagrant_command(self, <<A_snapshot, A_push>>, proc)

\* if NO_SNAPSHOTS_PUSHED in output: raise RuntimeError(NO_SNAPSHOTS_PUSHED)
popped(text) ==
    IF contains(text, NO_SNAPSHOTS_PUSHED)
    THEN RaiseWith("RuntimeError", NO_SNAPSHOTS_PUSHED)
    ELSE Ok(None)

\* Vagrant.snapshot_pop
snapshot_pop(self, proc) ==
    parse_with(_run_vagrant_command(self, <<A_snapshot, A_pop>>, proc), popped)

\* Vagrant.snapshot_save
snapshot_save(self, name, proc) ==
    _call_vagrant_command(self, <<A_snapshot, A_save, name>>, proc)

\* Vagrant.snapshot_restore
snapshot_restore(self, name, proc) ==
    _call_vagrant_command(self, <<A_snapshot, A_restore, name>>, proc)

\* Vagrant.snapshot_list
snapshot_list(self, proc) ==
    parse_with(
        _run_vagrant_command(self, <<A_snapshot, A_list>>, proc),
        LAMBDA text :
            IF contains(text, NO_SNAPSHOTS_TAKEN) THEN Ok(<<>>)
            ELSE Ok(splitlines(text)))

\* Vagrant.snapshot_delete
snapshot_delete(self, name, proc) ==
    _call_vagrant_command(self, <<A_snapshot, A_delete, name>>, proc)

\* Vagrant.box_update
box_update(self, name, provider, proc) ==
    _call_vagrant_command(self, <<A_box, A_update, name, provider>>, proc)

\* Vagrant.box_remove
box_remove(self, name, provider, proc) ==
    _call_vagrant_command(self, <<A_box, A_remove, name, provider>>, proc)

\* SandboxVagrant._run_sandbox_command
_run_sandbox_command(self, args, proc) ==
    _run_vagrant_command(self, <<A_sandbox>> \o args, proc)

\* SandboxVagrant.sandbox_commit: what the command printed is dropped.
sandbox_commit(self, vm_name, proc) ==
    parse_with(_run_sandbox_command(self, <<A_commit, vm_name>>, proc),
               LAMBDA text : Ok(None))

\* SandboxVagrant.sandbox_off
sandbox_off(self, vm_name, proc) ==
    parse_with(_run_sandbox_command(self, <<A_off, vm_name>>, proc),
               LAMBDA text : Ok(None))

\* SandboxVagrant.sandbox_on
sandbox_on(self, vm_name, proc) ==
    parse_with(_run_sandbox_command(self, <<A_on, vm_name>>, proc),
               LAMBDA text : Ok(None))

\* SandboxVagrant.sandbox_rollback
sandbox_rollback(self, vm_name, proc) ==
    parse_with(_run_sandbox_command(self, <<A_rollback, vm_name>>, proc),
               LAMBDA text : Ok(None))

\* SandboxVagrant.sandbox_status
sandbox_status(self, vm_name, proc) ==
    parse_with(_run_sandbox_command(self, <<A_status, vm_name>>, proc),
               _parse_vagrant_sandbox_status)

\* self.conf(vm_name=vm_name).get(key)
conf_get(self, vm_name, key, proc) ==
    LET c == conf(self, None, vm_name, proc)
    IN  IF c.ret.exc # "none" THEN c
        ELSE [c EXCEPT !.ret = Ok(dict_get(c.ret.value, key))]

\* Vagrant.user
user(self, vm_name, proc) == conf_get(self, vm_name, K_User, proc)

\* Vagrant.hostname
hostname(self, vm_name, proc) == conf_get(self, vm_name, K_HostName, proc)

\* Vagrant.port
port(self, vm_name, proc) == conf_get(self, vm_name, K_Port, proc)

\* Vagrant.keyfile
keyfile(self, vm_name, proc) == conf_get(self, vm_name, K_IdentityFile, proc)

\* user + '@' if user else ''
user_prefix(u) == IF truthy(u) THEN u \o <<"@">> ELSE <<>>

\* ':' + port if port else ''
port_suffix(p) == IF truthy(p) THEN <<":">> \o p ELSE <<>>

\* prefix + hostname + suffix; str + None raises TypeError.
concat(h, prefix, suffix) ==
    IF h.ret.value = None THEN [h EXCEPT !.ret = Raise("TypeError")]
    ELSE [h EXCEPT !.ret = Ok(prefix \o h.ret.value \o suffix)]

\* Vagrant.user_hostname
user_hostname(self, vm_name, proc, proc2) ==
    Then(user(self, vm_name, proc), LAMBDA u :
    Then(hostname(u, vm_name, proc2), LAMBDA h :
         concat(h, user_prefix(u.ret.value), <<>>)))

\* Vagrant.user_hostname_port
user_hostname_port(self, vm_name, proc, proc2, proc3) ==
    Then(user(self, vm_name, proc), LAMBDA u :
    Then(port(u, vm_name, proc2), LAMBDA p :
    Then(hostname(p, vm_name, proc3), LAMBDA h :
         concat(h, user_prefix(u.ret.value), port_suffix(p.ret.value)))))

(***************************************************************************)
(* The texts the parsers are called with                                   *)
(***************************************************************************)
\* The most lines a text holds.
MaxLines == 3

RECURSIVE Text(_)
\* The lines, each ended by a newline, as the tool prints them.
Text(lines) ==
    IF lines = <<>> THEN <<>> ELSE Head(lines) \o <<"\n">> \o Text(Tail(lines))

BoundedSeq(S, n) == UNION {[1..k -> S] : k \in 0..n}

Line(fields) == join(fields, <<",">>)

TS == <<"1">>

K_state_human_short ==
    <<"s", "t", "a", "t", "e", "-", "h", "u", "m", "a", "n", "-",
      "s", "h", "o", "r", "t">>

\* Lines of `vagrant status --machine-readable`: state and provider-name
\* lines of two targets, a line of another kind, noise lines of three,
\* four and five fields, lines of two and three fields, a line whose data
\* holds a comma, and a blank line.
StatusLines ==
    {Line(<<TS, t, k, d>>) :
        t \in {<<"a">>, <<"b">>}, k \in {K_state, K_provider_name},
        d \in {<<"x">>, <<"y">>}}
    \cup {Line(<<TS, <<"a">>, K_state_human_short, <<"x">>>>),
          Line(<<TS, <<"a">>, K_ui, <<"x">>, <<"y">>>>),
          Line(<<TS, <<"b">>, K_action>>),
          Line(<<TS, <<>>, K_metadata, <<"x">>>>),
          Line(<<TS, <<"a">>>>),
          Line(<<TS, <<"a">>, K_state>>),
          Line(<<TS, <<"a">>, K_state, <<"x">>, <<"y">>>>),
          <<" ", US, " ">>}

\* Lines of `vagrant box list --machine-readable`.
BoxLines ==
    {Line(<<TS, <<>>, K_box_name, d>>) : d \in {<<"n">>, <<"m">>, <<>>}}
    \cup {Line(<<TS, <<>>, K_box_provider, d>>) : d \in {<<"p">>, <<"q">>}}
    \cup {Line(<<TS, <<>>, K_box_version, <<"0">>>>),
          Line(<<TS, <<>>, K_box_provider, <<"p">>, <<"q">>>>)}

\* Lines of `vagrant plugin list --machine-readable`.
PluginLines ==
    {Line(<<TS, <<>>, K_plugin_name, d>>) : d \in {<<"n">>, <<"m">>}}
    \cup {Line(<<TS, <<"n">>, K_plugin_version, d>>) :
            d \in {<<"1">>,
                   <<"1">> \o ENCODED_COMMA \o <<" ">> \o S_system,
                   <<"1", NBSP>> \o ENCODED_COMMA
                       \o <<" ", "S", "Y", "S", "T", "E", "M", "U+3000">>,
                   <<"1">> \o ENCODED_COMMA \o <<"x">>,
                   <<"1">> \o ENCODED_COMMA \o S_system
                           \o ENCODED_COMMA \o <<"x">>,
                   <<"1", ",", " ">> \o S_system}}

\* Lines of `vagrant ssh-config`.
ConfigLines ==
    {<<"H", "o", "s", "t", " ", "d">>,
     <<"H", "o", "s", "t">>,
     <<"H", "o", "s", "t", "N", "a", "m", "e", " ", "h">>,
     <<" ", " ", "U", "s", "e", "r", "U+2003", "v">>,
     <<"U", "s", "e", "r", " ", "r">>,
     <<"K", "e", "y", " ", "\"", "q", "\"">>,
     <<"I", "d", " ", "q", "\"">>,
     <<"K", "e", "y", " ", "\"", "\"", "q", " ", "\"", "r", "\"", "\"">>,
     <<"#", " ", "c">>,
     <<"S", "o", "l", "o">>,
     <<" ">>}

\* The most space-separated pieces an output of `vagrant sandbox status`
\* holds.
MaxTokens == 3

\* Pieces of the outputs of `vagrant sandbox status`: of the usage text, of
\* "[default] - snapshot mode is on", of "[default] - machine not created",
\* with and without the newline that ends the output, and the empty piece
\* (an empty output, or two spaces in a row).
SandboxPieces ==
    {S_Usage, <<"n", "o", "t">>, <<"c", "r", "e", "a", "t", "e", "d">>,
     <<"c", "r", "e", "a", "t", "e", "d", "\n">>, <<"o", "n">>,
     <<"o", "f", "f", VT, "\n">>, <<"i", "s">>, <<>>}

\* The outputs: one to MaxTokens pieces with a space between them.
SandboxOutputs ==
    {join(pieces, <<" ">>) :
        pieces \in BoundedSeq(SandboxPieces, MaxTokens) \ {<<>>}}

\* The most lines of an output of `vagrant status`.
MaxStatusLines == 4

\* Lines of the outputs of `vagrant status`: the heading, with and without
\* text after it, the blank line, lines of a machine and its state, a line
\* of a machine name alone, and a line of the text after the block.
LegacyStatusLines ==
    {S_Current_VM_states,
     <<>>,
     <<" ", VT>>,
     <<"w", " ", VT, "u", "p">>,
     <<"d", " ", "n", "o", " ", "v", "m", " ">>,
     <<"w">>}

(***************************************************************************)
(* The calls                                                               *)
(***************************************************************************)
\* No parser called yet.
ParsersInit ==
    /\ output = <<>>
    /\ called = "none"
    /\ parsed = Ok(<<>>)
    /\ result = Ok(<<>>)

\* A call that is no call of a method: the construction of the object.
Constructed ==
    [name |-> "__init__", vm_name |-> None, ssh_config |-> None, args |-> <<>>]

\* Vagrant.__init__: self._cached_conf = {}; self._vagrant_exe = None
ObjectInit ==
    /\ _cached_conf = EmptyDict
    /\ _vagrant_exe = None
    /\ op = Constructed
    /\ launched = <<>>
    /\ ret = Ok(None)
    /\ before = EmptyDict

\* What the test method of a run did: nothing yet.
NoBody == [name |-> "none", box |-> <<>>, state |-> <<>>]

\* No test case loaded.
NoTestCase ==
    /\ vms = <<>>
    /\ vagrant_boxes = <<>>
    /\ restart_boxes = FALSE
    /\ instances = <<>>
    /\ __initial_box_statuses = EmptyDict
    /\ stage = "load"
    /\ events = <<>>
    /\ tests_run = 0
    /\ tc_ret = Ok(None)
    /\ body = NoBody

Init ==
    /\ ParsersInit
    /\ ObjectInit
    /\ NoTestCase
    /\ on_path = TRUE

\* v._parse_status(listing)
Call_parse_status ==
    /\ called = "none"
    /\ \E lines \in BoundedSeq(StatusLines, MaxLines) :
        /\ output' = Text(lines)
        /\ called' = "_parse_status"
        /\ parsed' = _parse_machine_readable_output(Text(lines))
        /\ result' = _parse_status(Text(lines))
    /\ UNCHANGED <<vagrant_vars, testcase_vars>>

\* v._parse_box_list(listing)
Call_parse_box_list ==
    /\ called = "none"
    /\ \E lines \in BoundedSeq(BoxLines, MaxLines) :
        /\ output' = Text(lines)
        /\ called' = "_parse_box_list"
        /\ parsed' = _parse_machine_readable_output(Text(lines))
        /\ result' = _parse_box_list(Text(lines))
    /\ UNCHANGED <<vagrant_vars, testcase_vars>>

\* v._parse_plugin_list(listing)
Call_parse_plugin_list ==
    /\ called = "none"
    /\ \E lines \in BoundedSeq(PluginLines, MaxLines) :
        /\ output' = Text(lines)
        /\ called' = "_parse_plugin_list"
        /\ parsed' = _parse_machine_readable_output(Text(lines))
        /\ result' = _parse_plugin_list(Text(lines))
    /\ UNCHANGED <<vagrant_vars, testcase_vars>>

\* v._parse_config(ssh_config)
Call_parse_config ==
    /\ called = "none"
    /\ \E lines \in BoundedSeq(ConfigLines, MaxLines) :
        /\ output' = Text(lines)
        /\ called' = "_parse_config"
        /\ result' = _parse_config(Text(lines))
        /\ UNCHANGED parsed
    /\ UNCHANGED <<vagrant_vars, testcase_vars>>

\* v._parse_vagrant_sandbox_status(vagrant_sandbox_output)
Call_parse_vagrant_sandbox_status ==
    /\ called = "none"
    /\ \E text \in SandboxOutputs :
        /\ output' = text
        /\ called' = "_parse_vagrant_sandbox_status"
        /\ result' = _parse_vagrant_sandbox_status(text)
        /\ UNCHANGED parsed
    /\ UNCHANGED <<vagrant_vars, testcase_vars>>

\* Vagrant.status of vagrant.py on the output `vagrant status` printed.
Call_status_scan ==
    /\ called = "none"
    /\ \E lines \in BoundedSeq(LegacyStatusLines, MaxStatusLines) :
        /\ output' = Text(lines)
        /\ called' = "status_scan"
        /\ result' = status_scan(Text(lines))
        /\ UNCHANGED parsed
    /\ UNCHANGED <<vagrant_vars, testcase_vars>>

Next ==
    \/ Call_parse_status
    \/ Call_parse_box_list
    \/ Call_parse_plugin_list
    \/ Call_parse_config
    \/ Call_parse_vagrant_sandbox_status
    \/ Call_status_scan

Spec == Init /\ [][Next]_vars

(***************************************************************************)
(* The calls of the methods of a Vagrant object (a SandboxVagrant, which    *)
(* has the methods of Vagrant and those of the sandbox)                    *)
(***************************************************************************)
\* The names the machines are called by: None (no vm_name given) and one
\* machine of a multi-machine environment.
Targets == {None, <<"w">>}

\* The exit codes of a command vagrant fails.
FailCodes == {1, 2}

\* A subprocess that exits with a non-zero code, having written to stderr.
Failed(returncode) ==
    [returncode |-> returncode, stdout |-> <<>>, stderr |-> <<"e">>]

\* A subprocess that exits with 0, having written `text` to its stdout.
Exited(text) == [returncode |-> 0, stdout |-> text, stderr |-> <<>>]

\* The runs of a command whose output is not read.
CallProcs == {Failed(rc) : rc \in FailCodes} \cup {Exited(<<>>)}

\* Outputs of `vagrant ssh-config`: two Host blocks, nothing, and a block
\* with a line of one token.
SshConfigTexts ==
    {Text(<<S_Host \o <<"d">>, K_User \o <<" ", "v">>>>),
     Text(<<S_Host \o <<"d">>, K_HostName \o <<" ", "h">>,
            K_Port \o <<" ", "2">>>>),
     <<>>,
     Text(<<S_Host \o <<"d">>, <<"S", "o", "l", "o">>>>)}

SshConfigProcs ==
    {Failed(rc) : rc \in FailCodes} \cup {Exited(t) : t \in SshConfigTexts}

\* What a further `vagrant ssh-config` of the same call gets.
SshConfigAgainProcs ==
    {Failed(1),
     Exited(Text(<<S_Host \o <<"e">>, K_HostName \o <<" ", "g">>>>))}

\* Outputs of `vagrant status --machine-readable`.
StatusTexts ==
    {<<>>,
     Text(<<Line(<<TS, <<"w">>, K_state, <<"x">>>>)>>),
     Text(<<Line(<<TS, <<"w">>>>)>>)}

StatusProcs ==
    {Failed(rc) : rc \in FailCodes} \cup {Exited(t) : t \in StatusTexts}

\* Outputs of `vagrant box list --machine-readable`.
BoxTexts ==
    {<<>>,
     Text(<<Line(<<TS, <<>>, K_box_name, <<"n">>>>)>>),
     Text(<<Line(<<TS, <<>>, K_box_provider, <<"p">>, <<"q">>>>)>>)}

BoxProcs == {Failed(rc) : rc \in FailCodes} \cup {Exited(t) : t \in BoxTexts}

\* Outputs of `vagrant plugin list --machine-readable`.
PluginTexts ==
    {<<>>,
     Text(<<Line(<<TS, <<>>, K_plugin_name, <<"n">>>>)>>),
     Text(<<Line(<<TS, <<"n">>, K_plugin_version,
                   <<"1">> \o ENCODED_COMMA \o S_system
                           \o ENCODED_COMMA \o <<"x">>>>)>>)}

PluginProcs ==
    {Failed(rc) : rc \in FailCodes} \cup {Exited(t) : t \in PluginTexts}

\* Outputs of `vagrant --version`.
VersionProcs ==
    {Failed(1), Exited(S_Vagrant \o <<"1", ".", "5", "\n">>),
     Exited(S_Vagrant \o <<"1">>), Exited(S_Vagrant \o <<"\n">>),
     Exited(<<"1", "\n">> \o S_Vagrant \o <<"2">>), Exited(<<>>)}

\* Outputs of `vagrant snapshot pop`.
SnapshotPopProcs ==
    {Failed(1), Exited(<<>>),
     Exited(<<"=", "=", ">", " ">> \o NO_SNAPSHOTS_PUSHED \o <<"\n">>)}

\* Outputs of `vagrant snapshot list`.
SnapshotListProcs ==
    {Failed(1), Exited(<<>>), Exited(<<"a", "\n", "b", "\n">>),
     Exited(<<"=", "=", ">", " ">> \o NO_SNAPSHOTS_TAKEN \o <<"\n">>)}

\* Outputs of `vagrant sandbox status`.
SandboxProcs ==
    {Failed(1), Exited(<<>>),
     Exited(<<"[", "w", "]", " ", "i", "s", " ", "o", "n">>),
     Exited(<<"[", "w", "]", " ">> \o S_not_created),
     Exited(S_Usage \o <<" ", "v">>)}

\* The names of boxes, snapshots and providers, and the addresses of boxes.
Names == {<<"n">>}

\* The values of the parameter provision_with: None or a list of names.
ProvisionWith == {None, <<>>, <<<<"s">>, <<"c">>>>}

\* The values of the optional parameters of up.
UpOptions ==
    {[no_provision |-> False, provider |-> None, provision |-> None,
      provision_with |-> None],
     [no_provision |-> True, provider |-> <<"p">>, provision |-> None,
      provision_with |-> None],
     [no_provision |-> True, provider |-> <<>>, provision |-> True,
      provision_with |-> <<<<"s">>, <<"c">>>>],
     [no_provision |-> False, provider |-> None, provision |-> False,
      provision_with |-> <<>>]}

\* The values of the optional parameters of reload.
ReloadOptions ==
    {[provision |-> None, provision_with |-> None],
     [provision |-> True, provision_with |-> <<<<"s">>>>],
     [provision |-> False, provision_with |-> None]}

\* What the `vagrant ssh-config` of up gets: it is launched when `vagrant up`
\* has exited with 0.
UpConfProcs(proc) ==
    IF proc.returncode = 0 THEN SshConfigProcs ELSE {Failed(1)}

\* The most arguments of a command line.
MaxArgs == 3

\* The arguments of a command line: None, the empty string, a word.
Args == {None, <<>>, <<"w">>}

\* The object as the call finds it.
Self ==
    [_cached_conf |-> _cached_conf, _vagrant_exe |-> _vagrant_exe,
     launched |-> <<>>, ret |-> Ok(None)]

\* The call name(vm_name=vm_name, ssh_config=ssh_cfg) leaves the object as
\* `done` has it.
Returns(name, vm_name, ssh_cfg, args, done) ==
    /\ op' = [name |-> name, vm_name |-> vm_name, ssh_config |-> ssh_cfg,
              args |-> args]
    /\ _cached_conf' = done._cached_conf
    /\ _vagrant_exe' = done._vagrant_exe
    /\ launched' = done.launched
    /\ ret' = done.ret
    /\ before' = _cached_conf
    /\ UNCHANGED <<on_path, parser_vars, testcase_vars>>

Call_up ==
    \E o \in UpOptions, vm_name \in Targets, proc \in CallProcs :
      \E proc2 \in UpConfProcs(proc) :
        Returns("up", vm_name, None,
                <<o.no_provision, o.provider, o.provision, o.provision_with>>,
                up(Self, o.no_provision, o.provider, vm_name, o.provision,
                   o.provision_with, proc, proc2))

Call_provision ==
    \E vm_name \in Targets, provision_with \in ProvisionWith,
       proc \in CallProcs :
        Returns("provision", vm_name, None, <<provision_with>>,
                provision(Self, vm_name, provision_with, proc))

Call_reload ==
    \E vm_name \in Targets, o \in ReloadOptions, proc \in CallProcs :
        Returns("reload", vm_name, None, <<o.provision, o.provision_with>>,
                reload(Self, vm_name, o.provision, o.provision_with, proc))

Call_suspend ==
    \E vm_name \in Targets, proc \in CallProcs :
        Returns("suspend", vm_name, None, <<>>, suspend(Self, vm_name, proc))

Call_resume ==
    \E vm_name \in Targets, proc \in CallProcs :
        Returns("resume", vm_name, None, <<>>, resume(Self, vm_name, proc))

Call_halt ==
    \E vm_name \in Targets, force \in {False, True}, proc \in CallProcs :
        Returns("halt", vm_name, None, <<force>>,
                halt(Self, vm_name, force, proc))

Call_destroy ==
    \E vm_name \in Targets, proc \in CallProcs :
        Returns("destroy", vm_name, None, <<>>, destroy(Self, vm_name, proc))

Call_status ==
    \E vm_name \in Targets, proc \in StatusProcs :
        Returns("status", vm_name, None, <<>>, status(Self, vm_name, proc))

Call_conf ==
    \E vm_name \in Targets, ssh_cfg \in SshConfigTexts \cup {None},
       proc \in SshConfigProcs :
        Returns("conf", vm_name, ssh_cfg, <<>>,
                conf(Self, ssh_cfg, vm_name, proc))

Call_ssh_config ==
    \E vm_name \in Targets, proc \in SshConfigProcs :
        Returns("ssh_config", vm_name, None, <<>>,
                ssh_config_of(Self, vm_name, proc))

Call_user ==
    \E vm_name \in Targets, proc \in SshConfigProcs :
        Returns("user", vm_name, None, <<>>, user(Self, vm_name, proc))

Call_hostname ==
    \E vm_name \in Targets, proc \in SshConfigProcs :
        Returns("hostname", vm_name, None, <<>>, hostname(Self, vm_name, proc))

Call_port ==
    \E vm_name \in Targets, proc \in SshConfigProcs :
        Returns("port", vm_name, None, <<>>, port(Self, vm_name, proc))

Call_keyfile ==
    \E vm_name \in Targets, proc \in SshConfigProcs :
        Returns("keyfile", vm_name, None, <<>>, keyfile(Self, vm_name, proc))

Call_user_hostname ==
    \E vm_name \in Targets, proc \in SshConfigProcs,
       proc2 \in SshConfigAgainProcs :
        Returns("user_hostname", vm_name, None, <<>>,
                user_hostname(Self, vm_name, proc, proc2))

Call_user_hostname_port ==
    \E vm_name \in Targets, proc \in SshConfigProcs,
       proc2 \in SshConfigAgainProcs, proc3 \in SshConfigAgainProcs :
        Returns("user_hostname_port", vm_name, None, <<>>,
                user_hostname_port(Self, vm_name, proc, proc2, proc3))

Call_box_list ==
    \E proc \in BoxProcs :
        Returns("box_list", None, None, <<>>, box_list(Self, proc))

Call_plugin_list ==
    \E proc \in PluginProcs :
        Returns("plugin_list", None, None, <<>>, plugin_list(Self, proc))

Call_version ==
    \E proc \in VersionProcs :
        Returns("version", None, None, <<>>, version(Self, proc))

Call_init ==
    \E box_name \in Names \cup {None}, box_url \in Names \cup {None},
       proc \in CallProcs :
        Returns("init", None, None, <<box_name, box_url>>,
                init(Self, box_name, box_url, proc))

Call_box_add ==
    \E name \in Names, url \in Names, provider \in Names \cup {None},
       force \in {False, True}, proc \in CallProcs :
        Returns("box_add", None, None, <<name, url, provider, force>>,
                box_add(Self, name, url, provider, force, proc))

Call_snapshot_push ==
    \E proc \in CallProcs :
        Returns("snapshot_push", None, None, <<>>, snapshot_push(Self, proc))

Call_snapshot_pop ==
    \E proc \in SnapshotPopProcs :
        Returns("snapshot_pop", None, None, <<>>, snapshot_pop(Self, proc))

Call_snapshot_save ==
    \E name \in Names, proc \in CallProcs :
        Returns("snapshot_save", None, None, <<name>>,
                snapshot_save(Self, name, proc))

Call_snapshot_restore ==
    \E name \in Names, proc \in CallProcs :
        Returns("snapshot_restore", None, None, <<name>>,
                snapshot_restore(Self, name, proc))

Call_snapshot_list ==
    \E proc \in SnapshotListProcs :
        Returns("snapshot_list", None, None, <<>>, snapshot_list(Self, proc))

Call_snapshot_delete ==
    \E name \in Names, proc \in CallProcs :
        Returns("snapshot_delete", None, None, <<name>>,
                snapshot_delete(Self, name, proc))

Call_box_update ==
    \E name \in Names, provider \in Names, proc \in CallProcs :
        Returns("box_update", None, None, <<name, provider>>,
                box_update(Self, name, provider, proc))

Call_box_remove ==
    \E name \in Names, provider \in Names, proc \in CallProcs :
        Returns("box_remove", None, None, <<name, provider>>,
                box_remove(Self, name, provider, proc))

Call_sandbox_commit ==
    \E vm_name \in Targets, proc \in CallProcs :
        Returns("sandbox_commit", vm_name, None, <<>>,
                sandbox_commit(Self, vm_name, proc))

Call_sandbox_off ==
    \E vm_name \in Targets, proc \in CallProcs :
        Returns("sandbox_off", vm_name, None, <<>>,
                sandbox_off(Self, vm_name, proc))

Call_sandbox_on ==
    \E vm_name \in Targets, proc \in CallProcs :
        Returns("sandbox_on", vm_name, None, <<>>,
                sandbox_on(Self, vm_name, proc))

Call_sandbox_rollback ==
    \E vm_name \in Targets, proc \in CallProcs :
        Returns("sandbox_rollback", vm_name, None, <<>>,
                sandbox_rollback(Self, vm_name, proc))

Call_sandbox_status ==
    \E vm_name \in Targets, proc \in SandboxProcs :
        Returns("sandbox_status", vm_name, None, <<>>,
                sandbox_status(Self, vm_name, proc))

\* v._make_vagrant_command(args)
Call_make_vagrant_command ==
    \E args \in BoundedSeq(Args, MaxArgs) :
        Returns("_make_vagrant_command", None, None, args,
                _make_vagrant_command(Self, args))

VagrantInit ==
    /\ ParsersInit
    /\ ObjectInit
    /\ NoTestCase
    /\ on_path \in BOOLEAN

VagrantNext ==
    \/ Call_up
    \/ Call_provision
    \/ Call_reload
    \/ Call_suspend
    \/ Call_resume
    \/ Call_halt
    \/ Call_destroy
    \/ Call_status
    \/ Call_conf
    \/ Call_ssh_config
    \/ Call_user
    \/ Call_hostname
    \/ Call_port
    \/ Call_keyfile
    \/ Call_user_hostname
    \/ Call_user_hostname_port
    \/ Call_box_list
    \/ Call_plugin_list
    \/ Call_version
    \/ Call_init
    \/ Call_box_add
    \/ Call_snapshot_push
    \/ Call_snapshot_pop
    \/ Call_snapshot_save
    \/ Call_snapshot_restore
    \/ Call_snapshot_list
    \/ Call_snapshot_delete
    \/ Call_box_update
    \/ Call_box_remove
    \/ Call_sandbox_commit
    \/ Call_sandbox_off
    \/ Call_sandbox_on
    \/ Call_sandbox_rollback
    \/ Call_sandbox_status
    \/ Call_make_vagrant_command

VagrantSpec == VagrantInit /\ [][VagrantNext]_vars

(***************************************************************************)
(* VagrantTestCase (vagrant/test.py)                                       *)
(*                                                                         *)
(* A test case is the record `this` of its attributes: vagrant_boxes, the  *)
(* Vagrant object vagrant, and the dict __initial_box_statuses of the      *)
(* class, which every instance shares.  The methods work in a world of     *)
(* machines, vms: the sequence, in the order of the Vagrantfile, of the    *)
(* machines [name, state] that the vagrant commands act on.  A method      *)
(* takes and gives a record [this, vms, ret]: the test case and the        *)
(* machines as the method leaves them, and what it returned or raised.     *)
(***************************************************************************)
RUNNING == <<"r", "u", "n", "n", "i", "n", "g">>

NOT_CREATED ==
    <<"n", "o", "t", "_", "c", "r", "e", "a", "t", "e", "d">>

POWEROFF == <<"p", "o", "w", "e", "r", "o", "f", "f">>

ABORTED == <<"a", "b", "o", "r", "t", "e", "d">>

SAVED == <<"s", "a", "v", "e", "d">>

S_default == <<"d", "e", "f", "a", "u", "l", "t">>

\* Binds the value `v` for the statements `rest` that follow.
Bind(v, rest(_)) == CHOOSE end \in {rest(d) : d \in {v}} : TRUE

\* Vagrant(self.vagrant_root, err_cm=stderr_cm)
NewVagrant ==
    [_cached_conf |-> EmptyDict, _vagrant_exe |-> None, launched |-> <<>>,
     ret |-> Ok(None)]

\* The names of the machines of the Vagrantfile.
Machines(world) == {world[i].name : i \in 1..Len(world)}

\* What a vagrant command that succeeds makes of the state of a machine:
\* up runs it, halt powers a created machine off, suspend saves a running
\* machine, destroy --force removes it.
Effect(method, state) ==
    IF method = "up" THEN RUNNING
    ELSE IF method = "halt"
    THEN (IF state = NOT_CREATED THEN state ELSE POWEROFF)
    ELSE IF method = "suspend"
    THEN (IF state = RUNNING THEN SAVED ELSE state)
    ELSE IF method = "destroy" THEN NOT_CREATED
    ELSE state

RECURSIVE StatusLinesOf(_)
\* The lines `vagrant status --machine-readable` prints for the machines.
StatusLinesOf(world) ==
    IF world = <<>> THEN <<>>
    ELSE <<Line(<<TS, world[1].name, K_provider_name, <<"p">>>>),
           Line(<<TS, world[1].name, K_state, world[1].state>>)>>
         \o StatusLinesOf(Tail(world))

\* The run of `vagrant status --machine-readable`.
StatusProc(world) == Exited(Text(StatusLinesOf(world)))

\* The run of `vagrant ssh-config <box>` of a running machine.
ConfProc(box) ==
    Exited(Text(<<S_Host \o box, K_HostName \o <<" ", "h">>>>))

\* The run of a command on a machine: it exits with 1 for a name the
\* Vagrantfile does not have and when the provider fails (~ok).
CommandProc(world, box, ok) ==
    IF ok /\ box \in Machines(world) THEN Exited(<<>>) ELSE Failed(1)

\* getattr(self.vagrant, method)(vm_name=box), for up, halt, suspend and
\* destroy, and the machines after it.
Invoke(w, method, box, ok) ==
    Bind(IF method = "up"
         THEN up(w.this.vagrant, False, None, box, None, None,
                 CommandProc(w.vms, box, ok), ConfProc(box))
         ELSE IF method = "halt"
         THEN halt(w.this.vagrant, box, False, CommandProc(w.vms, box, ok))
         ELSE IF method = "suspend"
         THEN suspend(w.this.vagrant, box, CommandProc(w.vms, box, ok))
         ELSE destroy(w.this.vagrant, box, CommandProc(w.vms, box, ok)),
         LAMBDA done :
            [this |-> [w.this EXCEPT !.vagrant = done],
             vms |-> IF done.ret.exc # "none" THEN w.vms
                     ELSE [i \in 1..Len(w.vms) |->
                              IF w.vms[i].name # box THEN w.vms[i]
                              ELSE [w.vms[i] EXCEPT
                                       !.state = Effect(method, @)]],
             ret |-> done.ret])

\* self.vagrant.status()
Statuses(w) ==
    Bind(status(w.this.vagrant, None, StatusProc(w.vms)),
         LAMBDA done : [w EXCEPT !.this.vagrant = done, !.ret = done.ret])

\* [s.state for s in statuses if s.name == box][0]
first_state(statuses, box) ==
    LET I == {i \in 1..Len(statuses) : statuses[i].name = box}
    IN  IF I = {} THEN Raise("IndexError")
        ELSE Ok(statuses[CHOOSE i \in I : \A j \in I : i <= j].state)

\* [s.name for s in self.vagrant.status()]
names_of(statuses) == [i \in 1..Len(statuses) |-> statuses[i].name]

\* if len(boxes) == 1: self.vagrant_boxes = ['default']
\* else: self.vagrant_boxes = boxes
boxes_of(boxes) == IF Len(boxes) = 1 THEN <<S_default>> ELSE boxes

\* VagrantTestCase.__init__.  boxes is the attribute vagrant_boxes of the class;
\* `not self.vagrant_boxes` holds of None and of the empty list.
TestCase_init(boxes, initial, world) ==
    IF boxes # None /\ boxes # <<>>
    THEN [this |-> [vagrant_boxes |-> boxes, vagrant |-> NewVagrant,
                    __initial_box_statuses |-> initial],
          vms |-> world, ret |-> Ok(None)]
    ELSE Bind(Statuses([this |-> [vagrant_boxes |-> boxes,
                                  vagrant |-> NewVagrant,
                                  __initial_box_statuses |-> initial],
                        vms |-> world, ret |-> Ok(None)]),
              LAMBDA w :
                 IF w.ret.exc # "none" THEN w
                 ELSE [w EXCEPT
                          !.this.vagrant_boxes = boxes_of(names_of(w.ret.value)),
                          !.ret = Ok(None)])

\* VagrantTestCase.assertBoxStatus: when the states differ the exception
\* is made by self.failureException(...) and not raised.
assertBoxStatus(w, box, state) ==
    Bind(Statuses(w), LAMBDA st :
        IF st.ret.exc # "none" THEN st
        ELSE IF first_state(st.ret.value, box).exc # "none"
        THEN [st EXCEPT !.ret = first_state(st.ret.value, box)]
        ELSE IF first_state(st.ret.value, box).value # state
        THEN [st EXCEPT !.ret = Ok(None)]
        ELSE [st EXCEPT !.ret = Ok(None)])

RECURSIVE setUpOnceFrom(_, _)
\* The turns of the loop of setUpOnce from box i on.
setUpOnceFrom(w, i) ==
    IF i > Len(w.this.vagrant_boxes) THEN [w EXCEPT !.ret = Ok(None)]
    ELSE Bind(Statuses(w), LAMBDA st :
        IF st.ret.exc # "none" THEN st
        ELSE IF first_state(st.ret.value, st.this.vagrant_boxes[i]).exc
                    # "none"
        THEN [st EXCEPT
                 !.ret = first_state(st.ret.value, st.this.vagrant_boxes[i])]
        ELSE setUpOnceFrom(
                 [st EXCEPT !.this.__initial_box_statuses =
                     dict_set(@, st.this.vagrant_boxes[i],
                              first_state(st.ret.value,
                                          st.this.vagrant_boxes[i]).value)],
                 i + 1))

\* VagrantTestCase.setUpOnce
setUpOnce(w) == setUpOnceFrom(w, 1)

RECURSIVE UpFrom(_, _, _, _)
\* self.vagrant.up(vm_name=box_name) for the boxes from i on; the up of box
\* fail_at fails.
UpFrom(w, boxes, i, fail_at) ==
    IF i > Len(boxes) THEN [w EXCEPT !.ret = Ok(None)]
    ELSE Bind(Invoke(w, "up", boxes[i], i # fail_at), LAMBDA done :
        IF done.ret.exc # "none" THEN done
        ELSE UpFrom(done, boxes, i + 1, fail_at))

\* setUp that starts every machine of the Vagrantfile.
setUp_every_machine(w, fail_at) ==
    UpFrom(w, [i \in 1..Len(w.vms) |-> w.vms[i].name], 1, fail_at)

\* VagrantTestCase.setUp
setUp(w, fail_at) == UpFrom(w, w.this.vagrant_boxes, 1, fail_at)

\* self.__cleanup_actions.get(state); "" stands for None.
cleanup_action(state) ==
    IF state = NOT_CREATED THEN "destroy"
    ELSE IF state = POWEROFF THEN "halt"
    ELSE IF state = SAVED THEN "suspend"
    ELSE ""

RECURSIVE RestoreFrom(_, _, _)
\* The turns of the loop of restore_box_states from box i on; the command
\* for box fail_at, if there is one, fails.
RestoreFrom(w, i, fail_at) ==
    IF i > Len(w.this.vagrant_boxes) THEN [w EXCEPT !.ret = Ok(None)]
    ELSE IF cleanup_action(
                w.this.__initial_box_statuses[w.this.vagrant_boxes[i]]) = ""
    THEN RestoreFrom(w, i + 1, fail_at)
    ELSE Bind(Invoke(w,
                     cleanup_action(
                         w.this.__initial_box_statuses[
                             w.this.vagrant_boxes[i]]),
                     w.this.vagrant_boxes[i], i # fail_at),
              LAMBDA done :
                 IF done.ret.exc # "none" THEN done
                 ELSE RestoreFrom(done, i + 1, fail_at))

\* VagrantTestCase.restore_box_states
restore_box_states(w, fail_at) == RestoreFrom(w, 1, fail_at)

\* VagrantTestCase.tearDown
tearDown(w, restart, fail_at) ==
    IF restart THEN restore_box_states(w, fail_at)
    ELSE [w EXCEPT !.ret = Ok(None)]

\* VagrantTestCase.tearDownOnce
tearDownOnce(w, restart, fail_at) ==
    IF ~restart THEN restore_box_states(w, fail_at)
    ELSE [w EXCEPT !.ret = Ok(None)]

(***************************************************************************)
(* The run of the test cases of a class derived from VagrantTestCase       *)
(*                                                                         *)
(* unittest constructs one test case for each test method of the class,    *)
(* all of them before the first runs, and calls run(result) of each in     *)
(* turn.  VagrantTestCase.run is setUpOnce, TestCase.run, tearDownOnce;    *)
(* TestCase.run is setUp, the test method and tearDown, where an error of  *)
(* setUp skips the test method and tearDown, and an error of either of     *)
(* the three is recorded in the result and not raised; for a test method   *)
(* or a class that unittest.skip marks, TestCase.run records the skip and  *)
(* returns without calling any of the three.  An error of                  *)
(* __init__, setUpOnce or tearDownOnce is raised to the caller of the      *)
(* tests: stage "crashed".                                                 *)
(***************************************************************************)
\* The most test methods of the class.
MaxTests == 2

W == <<"w">>

B == <<"b">>

\* The states of a machine.
States == {RUNNING, NOT_CREATED, POWEROFF, ABORTED, SAVED}

\* The machines as they are when the tests are loaded.
Worlds ==
    {[i \in 1..Len(f) |-> [name |-> f[i], state |-> st[i]]] :
        f \in {<<S_default>>, <<W>>}, st \in [1..1 -> States]}
    \cup {<<[name |-> W, state |-> st], [name |-> B, state |-> sb]>> :
            st \in States, sb \in {NOT_CREATED, RUNNING}}

\* The values the class gives vagrant_boxes.
BoxLists == {None, <<>>, <<W>>, <<S_default>>, <<B, W>>}

\* What the test method does: nothing, a command on a machine, or an
\* assertion on the state of a machine.
Bodies ==
    {[name |-> "pass", box |-> <<>>, state |-> <<>>]}
    \cup {[name |-> m, box |-> b, state |-> <<>>] :
            m \in {"halt", "suspend", "destroy"}, b \in Machines(vms)}
    \cup {[name |-> "assertBoxStatus", box |-> b, state |-> st] :
            b \in Machines(vms), st \in {RUNNING, NOT_CREATED}}

\* The test method.
test(w, b) ==
    IF b.name = "pass" THEN [w EXCEPT !.ret = Ok(None)]
    ELSE IF b.name = "assertBoxStatus"
    THEN assertBoxStatus(w, b.box, b.state)
    ELSE Invoke(w, b.name, b.box, TRUE)

\* The test case whose run comes next, or is under way.
Current == tests_run + 1

\* The test case k and the machines, as a method finds them.
World(k) ==
    [this |-> [vagrant_boxes |-> instances[k].vagrant_boxes,
               vagrant |-> instances[k].vagrant,
               __initial_box_statuses |-> __initial_box_statuses],
     vms |-> vms,
     ret |-> Ok(None)]

\* The test case as it is kept between the methods: the launches of the
\* method are in `events`, what it returned in `tc_ret`.
Kept(this) ==
    [vagrant_boxes |-> this.vagrant_boxes,
     vagrant |-> [this.vagrant EXCEPT !.launched = <<>>, !.ret = Ok(None)]]

\* The commands the method `name` launched.
Launches(name, w) ==
    [i \in 1..Len(w.this.vagrant.launched) |->
        [stage |-> name, command |-> w.this.vagrant.launched[i].command]]

\* The method `name` of test case k leaves the test case and the machines
\* as `w` has them.
Leaves(name, k, w, raised_to_caller) ==
    /\ instances' = [instances EXCEPT ![k] = Kept(w.this)]
    /\ __initial_box_statuses' = w.this.__initial_box_statuses
    /\ vms' = w.vms
    /\ tc_ret' = w.ret
    /\ stage' = IF raised_to_caller /\ w.ret.exc # "none" THEN "crashed"
                ELSE name
    /\ events' = (IF name = "setUpOnce" THEN <<>> ELSE events)
                     \o Launches(name, w)
    /\ UNCHANGED <<vagrant_boxes, restart_boxes, parser_vars, vagrant_vars>>

\* unittest constructs the test case of one more test method.
Call_TestCase_init ==
    /\ stage = "load"
    /\ Len(instances) < MaxTests
    /\ LET w == TestCase_init(vagrant_boxes, __initial_box_statuses, vms)
       IN  /\ instances' = IF w.ret.exc # "none" THEN instances
                           ELSE Append(instances, Kept(w.this))
           /\ tc_ret' = w.ret
           /\ stage' = IF w.ret.exc # "none" THEN "crashed" ELSE "load"
           /\ events' = events \o Launches("__init__", w)
    /\ UNCHANGED <<vms, vagrant_boxes, restart_boxes, __initial_box_statuses,
                   tests_run, body, parser_vars, vagrant_vars>>

\* run, first part: self.setUpOnce()
Call_setUpOnce ==
    /\ stage \in {"load", "tearDownOnce"}
    /\ Current <= Len(instances)
    /\ Leaves("setUpOnce", Current, setUpOnce(World(Current)), TRUE)
    /\ body' = NoBody
    /\ UNCHANGED tests_run

\* TestCase.run of a test that unittest.skip marks: it returns at once.
Call_run_skipped ==
    /\ stage = "setUpOnce"
    /\ stage' = "skipped"
    /\ UNCHANGED <<vms, vagrant_boxes, restart_boxes, instances,
                   __initial_box_statuses, events, tests_run, tc_ret, body,
                   parser_vars, vagrant_vars>>

\* TestCase.run, first part: self.setUp()
Call_setUp ==
    /\ stage = "setUpOnce"
    /\ \E fail_at \in 0..Len(instances[Current].vagrant_boxes) :
          Leaves("setUp", Current, setUp(World(Current), fail_at), FALSE)
    /\ UNCHANGED <<tests_run, body>>

\* TestCase.run, second part: the test method, when setUp raised nothing.
Call_test ==
    /\ stage = "setUp"
    /\ tc_ret.exc = "none"
    /\ \E b \in Bodies :
          /\ Leaves("test", Current, test(World(Current), b), FALSE)
          /\ body' = b
    /\ UNCHANGED tests_run

\* TestCase.run, third part: self.tearDown(), after the test method.
Call_tearDown ==
    /\ stage = "test"
    /\ \E fail_at \in 0..Len(instances[Current].vagrant_boxes) :
          Leaves("tearDown", Current,
                 tearDown(World(Current), restart_boxes, fail_at), FALSE)
    /\ UNCHANGED <<tests_run, body>>

\* run, last part: self.tearDownOnce()
Call_tearDownOnce ==
    /\ \/ stage = "tearDown"
       \/ stage = "setUp" /\ tc_ret.exc # "none"
       \/ stage = "skipped"
    /\ \E fail_at \in 0..Len(instances[Current].vagrant_boxes) :
          Leaves("tearDownOnce", Current,
                 tearDownOnce(World(Current), restart_boxes, fail_at), TRUE)
    /\ tests_run' = tests_run + 1
    /\ UNCHANGED body

\* A class derived from VagrantTestCase, declared and not yet loaded, in a
\* directory with a Vagrantfile.
TestCaseInit ==
    /\ ParsersInit
    /\ ObjectInit
    /\ on_path \in BOOLEAN
    /\ vms \in Worlds
    /\ vagrant_boxes \in BoxLists
    /\ restart_boxes \in BOOLEAN
    /\ instances = <<>>
    /\ __initial_box_statuses = EmptyDict
    /\ stage = "load"
    /\ events = <<>>
    /\ tests_run = 0
    /\ tc_ret = Ok(None)
    /\ body = NoBody

TestCaseNext ==
    \/ Call_TestCase_init
    \/ Call_setUpOnce
    \/ Call_run_skipped
    \/ Call_setUp
    \/ Call_test
    \/ Call_tearDown
    \/ Call_tearDownOnce

TestCaseSpec == TestCaseInit /\ [][TestCaseNext]_vars

(***************************************************************************)
(* What the properties below speak of                                      *)
(***************************************************************************)
MRParsers == {"_parse_status", "_parse_box_list", "_parse_plugin_list"}

\* The kinds the decoder is to drop as noise.
NoiseKinds == {K_metadata, K_ui, K_action}

K_Host == <<"H", "o", "s", "t">>

\* Every comma-delimited segment of a line.
Fields(line) == split(line, ",", Len(line))

\* A line whose third segment is a noise kind.
IsNoiseLine(line) == Len(Fields(line)) >= 3 /\ Fields(line)[3] \in NoiseKinds

\* The non-blank lines of the text handed to the parser.
NonBlankLines == SelectSeq(splitlines(output), LAMBDA l : strip(l) # <<>>)

\* The non-blank lines that are no noise lines.
KeptLines == SelectSeq(NonBlankLines, LAMBDA l : ~IsNoiseLine(l))

\* The text's data holds the escaped-comma token at most once a line.
TokenAtMostOnce ==
    \A i \in 1..Len(KeptLines) : Len(split_str(KeptLines[i], ENCODED_COMMA)) <= 2

\* The k-th least element of a set of indices.
Nth(S, k) == CHOOSE i \in S : Cardinality({j \in S : j <= i}) = k

\* The last index of the segment that starts at index i of S: the one before
\* the next index of S, or the last decoded quadruple.
SegEnd(S, i) ==
    IF \E j \in S : j > i
    THEN (CHOOSE j \in S : j > i /\ \A m \in S : m > i => j <= m) - 1
    ELSE Len(parsed.value)

\* The quadruples of kind `kind` among the decoded quadruples lo..hi.
OfKind(lo, hi, kind) == {i \in lo..hi : parsed.value[i][3] = kind}

\* The data of the last quadruple of kind `kind` among lo..hi, or None.
LastData(lo, hi, kind) ==
    IF OfKind(lo, hi, kind) = {} THEN None
    ELSE parsed.value[CHOOSE i \in OfKind(lo, hi, kind) :
                          \A j \in OfKind(lo, hi, kind) : j <= i][4]

\* Where a new target starts in the decoded quadruples.
RunStarts ==
    {i \in 1..Len(parsed.value) :
        i = 1 \/ parsed.value[i][2] # parsed.value[i - 1][2]}

\* Where the quadruples of kind `kind` are.
Marks(kind) == OfKind(1, Len(parsed.value), kind)

(***************************************************************************)
(* C1.  Every non-blank line decodes to exactly four fields, split at its  *)
(* first three commas, the fourth being the rest of the line verbatim; a   *)
(* text whose lines all hold three commas or more is consumed by the       *)
(* status, box and plugin parsers without failing.                         *)
(***************************************************************************)
C1_FourFieldsVerbatim ==
    (/\ called \in MRParsers
     /\ \A i \in 1..Len(KeptLines) : Len(Fields(KeptLines[i])) >= 4)
    => /\ parsed = Ok([i \in 1..Len(KeptLines) |-> split(KeptLines[i], ",", 3)])
       /\ TokenAtMostOnce => result.exc = "none"

(***************************************************************************)
(* C2.  A line whose kind is metadata, ui or action is dropped whatever    *)
(* its number of fields: it is in no decoded sequence, and _parse_status   *)
(* gives for a text what it gives for the text without its noise lines     *)
(* (the same records, and no failure the other lines do not cause).        *)
(***************************************************************************)
C2_NoiseDropped ==
    /\ (called \in MRParsers /\ parsed.exc = "none")
       => \A i \in 1..Len(parsed.value) : parsed.value[i][3] \notin NoiseKinds
    /\ called = "_parse_status" => result = _parse_status(Text(KeptLines))

C2_Witness ==
    /\ called = "_parse_status"
    /\ \E i \in 1..Len(NonBlankLines) :
          IsNoiseLine(NonBlankLines[i]) /\ Len(Fields(NonBlankLines[i])) = 3
    /\ \E i \in 1..Len(NonBlankLines) :
          IsNoiseLine(NonBlankLines[i]) /\ Len(Fields(NonBlankLines[i])) = 5
    /\ result = Ok(<<Status(<<"a">>, <<"x">>, None)>>)

(***************************************************************************)
(* C3.  Decoding a text with a non-blank line of fewer than four           *)
(* comma-delimited segments whose kind is no noise kind fails (with a      *)
(* ParseError that names the line): the line is not returned as a record.  *)
(***************************************************************************)
C3_ShortLineFails ==
    (/\ called \in MRParsers
     /\ \E i \in 1..Len(KeptLines) : Len(Fields(KeptLines[i])) < 4)
    => parsed.exc # "none"

(***************************************************************************)
(* C4.  _parse_status returns one Status per maximal run of consecutive    *)
(* decoded quadruples of the same target, in the order of the runs, named  *)
(* after the target; an empty or blank-only text gives the empty list.     *)
(***************************************************************************)
C4_OneStatusPerRun ==
    called = "_parse_status" =>
        /\ result.exc = "none" =>
              /\ Len(result.value) = Cardinality(RunStarts)
              /\ \A g \in 1..Len(result.value) :
                    result.value[g].name = parsed.value[Nth(RunStarts, g)][2]
        /\ NonBlankLines = <<>> => result = Ok(<<>>)

C4_Witness ==
    /\ called = "_parse_status"
    /\ result.exc = "none"
    /\ [g \in 1..Len(result.value) |-> result.value[g].name]
          = << <<"a">>, <<"b">>, <<"a">> >>

(***************************************************************************)
(* C5.  In each target group the state of the Status is the data of the    *)
(* group's last quadruple of kind state and its provider the data of the   *)
(* last of kind provider-name; None when the group has none.               *)
(***************************************************************************)
C5_LastStateAndProvider ==
    (called = "_parse_status" /\ result.exc = "none") =>
        \A g \in 1..Len(result.value) :
            LET lo == Nth(RunStarts, g)
                hi == SegEnd(RunStarts, lo)
            IN  /\ result.value[g].state = LastData(lo, hi, K_state)
                /\ result.value[g].provider = LastData(lo, hi, K_provider_name)

C5_Witness ==
    /\ called = "_parse_status"
    /\ Len(KeptLines) = 3
    /\ result = Ok(<<Status(<<"a">>, <<"y">>, None)>>)
    /\ parsed.value[1][4] = <<"x">>

(***************************************************************************)
(* C6.  _parse_box_list returns one Box per box-name quadruple, in the     *)
(* order of the stream, named by that quadruple's data whatever it is,     *)
(* with the provider and version last set after it and before the next     *)
(* box-name or the end of the stream.                                      *)
(***************************************************************************)
C6_OneBoxPerName ==
    (called = "_parse_box_list" /\ result.exc = "none") =>
        /\ Len(result.value) = Cardinality(Marks(K_box_name))
        /\ \A b \in 1..Len(result.value) :
              LET lo == Nth(Marks(K_box_name), b)
                  hi == SegEnd(Marks(K_box_name), lo)
              IN  /\ result.value[b].name = parsed.value[lo][4]
                  /\ OfKind(lo, hi, K_box_provider) # {} =>
                        result.value[b].provider
                            = LastData(lo, hi, K_box_provider)
                  /\ OfKind(lo, hi, K_box_version) # {} =>
                        result.value[b].version
                            = LastData(lo, hi, K_box_version)

C6_Witness ==
    /\ called = "_parse_box_list"
    /\ result = Ok(<<Box(<<>>, <<"q">>, None), Box(<<"n">>, None, None)>>)

(***************************************************************************)
(* C7.  provider and version are reset to None at every box-name, the      *)
(* first one too: a Box with no box-provider (box-version) quadruple       *)
(* between its box-name and the next has provider (version) None,          *)
(* whatever came before its box-name.                                      *)
(***************************************************************************)
C7_ResetAtEveryBoxName ==
    (called = "_parse_box_list" /\ result.exc = "none") =>
        \A b \in 1..Len(result.value) :
            LET lo == Nth(Marks(K_box_name), b)
                hi == SegEnd(Marks(K_box_name), lo)
            IN  /\ OfKind(lo, hi, K_box_provider) = {} =>
                      result.value[b].provider = None
                /\ OfKind(lo, hi, K_box_version) = {} =>
                      result.value[b].version = None

C7_Witness ==
    /\ called = "_parse_box_list"
    /\ result = Ok(<<Box(<<"n">>, None, None)>>)
    /\ Len(parsed.value) = 3
    /\ parsed.value[1][3] = K_box_provider
    /\ parsed.value[2][3] = K_box_version

(***************************************************************************)
(* C8.  For every plugin-version data field: with the escaped-comma token  *)
(* in it, the version is the text left of the token, trimmed, and system   *)
(* is whether the text right of it, trimmed and lower-cased, is "system";  *)
(* without the token the version is the whole field and system is false.   *)
(* No plugin-version data field makes the parser fail.                     *)
(***************************************************************************)
LeftOfToken(d) == SubSeq(d, 1, find_str(d, ENCODED_COMMA, 1) - 1)

RightOfToken(d) ==
    SubSeq(d, find_str(d, ENCODED_COMMA, 1) + Len(ENCODED_COMMA), Len(d))

C8_VersionField ==
    (/\ called = "_parse_plugin_list"
     /\ parsed.exc = "none"
     /\ \A i \in 1..Len(parsed.value) : Len(parsed.value[i]) = 4)
    => /\ result.exc = "none"
       /\ \A p \in 1..Len(result.value) :
             LET lo == Nth(Marks(K_plugin_name), p)
                 hi == SegEnd(Marks(K_plugin_name), lo)
                 d == LastData(lo, hi, K_plugin_version)
             IN  d # None =>
                    IF contains(d, ENCODED_COMMA)
                    THEN /\ result.value[p].version = strip(LeftOfToken(d))
                         /\ result.value[p].system
                               = (lower(strip(RightOfToken(d))) = S_system)
                    ELSE /\ result.value[p].version = d
                         /\ result.value[p].system = FALSE

(***************************************************************************)
(* C9.  _parse_plugin_list returns one Plugin per plugin-name quadruple,   *)
(* in order; its version and system come only from the plugin-version      *)
(* quadruples between its plugin-name and the next: with none of them the  *)
(* version is None and system is false, even after a system plugin.        *)
(***************************************************************************)
C9_PluginPerName ==
    (called = "_parse_plugin_list" /\ result.exc = "none") =>
        /\ Len(result.value) = Cardinality(Marks(K_plugin_name))
        /\ \A p \in 1..Len(result.value) :
              LET lo == Nth(Marks(K_plugin_name), p)
                  hi == SegEnd(Marks(K_plugin_name), lo)
                  d == LastData(lo, hi, K_plugin_version)
              IN  /\ result.value[p].name = parsed.value[lo][4]
                  /\ d = None =>
                        /\ result.value[p].version = None
                        /\ result.value[p].system = FALSE
                  /\ d # None =>
                        /\ result.value[p].version
                              = set_version(PluginInit, d).version
                        /\ result.value[p].system
                              = set_version(PluginInit, d).system

C9_Witness ==
    /\ called = "_parse_plugin_list"
    /\ result = Ok(<<Plugin(<<"n">>, <<"1">>, TRUE),
                     Plugin(<<"m">>, None, FALSE)>>)

(***************************************************************************)
(* C10.  _parse_config stores no pair from a line before the first line    *)
(* whose trimmed content starts with "Host ", and a text with no such      *)
(* line gives the empty map.                                               *)
(***************************************************************************)
ConfigText == splitlines(output)

\* The lines whose trimmed content starts with "Host ".
HostLines ==
    {i \in 1..Len(ConfigText) : startswith(strip(ConfigText[i]), S_Host)}

FirstHost == CHOOSE i \in HostLines : \A j \in HostLines : i <= j

\* The key and the value _parse_config is to take from a line.
KeyValue(line) == split_ws(strip(line), 1)

\* The lines from the first Host line on that read `key value`.
LinesKeyed(key) ==
    {i \in FirstHost..Len(ConfigText) :
        /\ ~startswith(strip(ConfigText[i]), <<"#">>)
        /\ Len(KeyValue(ConfigText[i])) = 2
        /\ KeyValue(ConfigText[i])[1] = key}

\* As claimed: the Host line itself is not stored, so that the map holds
\* no key Host.
C10_HostLineNotStored ==
    (called = "_parse_config" /\ result.exc = "none") =>
        K_Host \notin DOMAIN result.value

\* As the code has it: the Host line is stored, like the lines after it,
\* under the key Host.
C10_NothingBeforeHost ==
    called = "_parse_config" =>
        /\ HostLines = {} => result = Ok(EmptyDict)
        /\ HostLines # {} =>
              result = _parse_config(
                          Text(SubSeq(ConfigText, FirstHost, Len(ConfigText))))
        /\ (HostLines # {} /\ result.exc = "none") =>
              /\ K_Host \in DOMAIN result.value
              /\ \A k \in DOMAIN result.value :
                    /\ LinesKeyed(k) # {}
                    /\ result.value[k] =
                          strip_chars(
                              KeyValue(ConfigText[
                                  CHOOSE i \in LinesKeyed(k) :
                                      \A j \in LinesKeyed(k) : j <= i])[2],
                              {"\""})

C10_Witness ==
    /\ called = "_parse_config"
    /\ result.exc = "none"
    /\ HostLines # {}
    /\ FirstHost = 2
    /\ Len(KeyValue(ConfigText[1])) = 2
    /\ DOMAIN result.value = {K_Host}

(***************************************************************************)
(* C11.  For every key/value line of the Host block the stored value is    *)
(* the line's value with one leading and one trailing double-quote         *)
(* removed when it both starts and ends with one, and the value as it is   *)
(* otherwise: a quote on one side only, or further quotes, stay.           *)
(***************************************************************************)
\* The line that decides the value stored under key k: the last one.
LastKeyed(k) == CHOOSE i \in LinesKeyed(k) : \A j \in LinesKeyed(k) : j <= i

\* The value of the line that decides key k, as the line has it.
RawValue(k) == KeyValue(ConfigText[LastKeyed(k)])[2]

Quote == "\""

\* As claimed: one quote from each side, and only with one on both sides.
C11_OneQuoteEachSide ==
    (called = "_parse_config" /\ result.exc = "none") =>
        \A k \in DOMAIN result.value :
            result.value[k] =
                IF /\ Len(RawValue(k)) >= 2
                   /\ RawValue(k)[1] = Quote
                   /\ RawValue(k)[Len(RawValue(k))] = Quote
                THEN SubSeq(RawValue(k), 2, Len(RawValue(k)) - 1)
                ELSE RawValue(k)

\* As the code has it: every leading and every trailing double-quote of the
\* value is removed, with or without a quote on the other side; what is
\* stored starts and ends with no quote and is the value's middle.
C11_AllOuterQuotesStripped ==
    (called = "_parse_config" /\ result.exc = "none") =>
        \A k \in DOMAIN result.value :
            LET v == RawValue(k)
                w == result.value[k]
                Inner == {i \in 1..Len(v) : v[i] # Quote}
            IN  /\ Inner = {} => w = <<>>
                /\ Inner # {} =>
                      /\ w[1] # Quote /\ w[Len(w)] # Quote
                      /\ \E a \in 1..Len(v) :
                            /\ w = SubSeq(v, a, a + Len(w) - 1)
                            /\ \A i \in 1..(a - 1) : v[i] = Quote
                            /\ \A i \in (a + Len(w))..Len(v) : v[i] = Quote

C11_Witness ==
    /\ called = "_parse_config"
    /\ result.exc = "none"
    /\ \E k \in DOMAIN result.value :
          /\ RawValue(k) = <<"q", Quote>>
          /\ result.value[k] = <<"q">>
    /\ \E k \in DOMAIN result.value :
          /\ RawValue(k) = <<Quote, Quote, "q", " ", Quote, "r", Quote, Quote>>
          /\ result.value[k] = <<"q", " ", Quote, "r">>

(***************************************************************************)
(* C12.  A text with, from the Host line on, a non-blank non-comment line  *)
(* of a single token makes _parse_config fail with a ParseError (naming    *)
(* the line); the line is not skipped and no map is returned.              *)
(***************************************************************************)
\* The lines from the first Host line on that hold one token and no value.
SingleTokenLines ==
    IF HostLines = {} THEN {}
    ELSE {i \in FirstHost..Len(ConfigText) :
             /\ strip(ConfigText[i]) # <<>>
             /\ ~startswith(strip(ConfigText[i]), <<"#">>)
             /\ Len(KeyValue(ConfigText[i])) = 1}

C12_SingleTokenParseError ==
    (called = "_parse_config" /\ SingleTokenLines # {}) =>
        result.exc = "ParseError"

(***************************************************************************)
(* C20.  For any output of the sandbox status command                      *)
(* _parse_vagrant_sandbox_status returns, and returns one of "on", "off",  *)
(* "unknown" and "not installed": "not installed" when the output starts   *)
(* with the token "Usage:", "unknown" when it ends with "not created",     *)
(* and the last token otherwise.                                           *)
(***************************************************************************)
SandboxValues == {<<"o", "n">>, <<"o", "f", "f">>, S_unknown, S_not_installed}

\* The output without the whitespace at its end.
Trimmed == rstrip_chars(output, Whitespace)

EndsWithNotCreated ==
    /\ Len(Trimmed) >= Len(S_not_created)
    /\ SubSeq(Trimmed, Len(Trimmed) - Len(S_not_created) + 1, Len(Trimmed))
          = S_not_created

\* The output starts with the token "Usage:".
StartsWithUsage ==
    /\ startswith(output, S_Usage)
    /\ Len(output) > Len(S_Usage) => output[Len(S_Usage) + 1] \in Whitespace

\* The whitespace-separated tokens of the output.
OutputTokens == split_ws(output, Len(output))

C20_OneOfFourValues ==
    called = "_parse_vagrant_sandbox_status" =>
        /\ result.exc = "none"
        /\ result.value \in SandboxValues
        /\ StartsWithUsage => result.value = S_not_installed
        /\ (~StartsWithUsage /\ EndsWithNotCreated) => result.value = S_unknown
        /\ (~StartsWithUsage /\ ~EndsWithNotCreated) =>
              /\ OutputTokens # <<>>
              /\ result.value = OutputTokens[Len(OutputTokens)]

(***************************************************************************)
(* What the properties of the Vagrant object speak of                      *)
(***************************************************************************)
\* The machine the last call named.
T == op.vm_name

\* A configuration was cached for the machine when the last call began.
WasCached == ~cached_get(before, T).is_none

\* The command line of `vagrant ssh-config` for the machine.
SshConfigCommand ==
    <<VAGRANT_PATH, A_ssh_config>> \o (IF T = None THEN <<>> ELSE <<T>>)

\* The last call ran `vagrant ssh-config` for its machine, once, and
\* nothing else.
FetchedOnce ==
    /\ Len(launched) = 1
    /\ launched[1].command = SshConfigCommand

\* What the last call returned is the parse of what the one subprocess it
\* launched printed.
ReturnsFetched ==
    IF launched[1].returncode # 0
    THEN ret.exc = "CalledProcessError"
    ELSE ret = _parse_config(launched[1].stdout)

(***************************************************************************)
(* C13.  After halt, suspend or destroy of machine T has been issued (its  *)
(* command was launched), no configuration is cached for T; and the conf   *)
(* of T that is called next, without ssh_config, does not answer from what *)
(* was cached before: it runs `vagrant ssh-config` for T again.            *)
(***************************************************************************)
\* The last call was halt, suspend or destroy and launched its command.
Issued == op.name \in {"halt", "suspend", "destroy"} /\ launched # <<>>

C13_InvalidatedWhenIssued ==
    /\ [](Issued => cached_get(_cached_conf, T).is_none)
    /\ [][(/\ Issued
           /\ op'.name = "conf" /\ op'.ssh_config = None /\ op'.vm_name = T) =>
            /\ Len(launched') = 1
            /\ launched'[1].command = SshConfigCommand]_vars

(***************************************************************************)
(* C14.  conf(vm_name=T) without ssh_config launches `vagrant ssh-config`  *)
(* exactly when no configuration is cached for T (and the executable is    *)
(* found), and returns the cached map, the cache unchanged, otherwise;     *)
(* conf(ssh_config=X, vm_name=T) launches nothing, stores the parse of X   *)
(* for T and returns it (when X does not parse, it raises and stores       *)
(* nothing).  What conf returns is the cache entry for T after the call.   *)
(***************************************************************************)
C14_ConfAndCache ==
    op.name = "conf" =>
        /\ (op.ssh_config = None /\ WasCached) =>
              /\ launched = <<>>
              /\ ret = Ok(before[T].conf)
              /\ _cached_conf = before
        /\ (op.ssh_config = None /\ ~WasCached) =>
              IF _vagrant_exe = None THEN launched = <<>>
              ELSE FetchedOnce /\ ReturnsFetched
        /\ op.ssh_config # None =>
              /\ launched = <<>>
              /\ ret = _parse_config(op.ssh_config)
              /\ ret.exc = "none" =>
                    _cached_conf = dict_set(before, T, Conf(ret.value))
              /\ ret.exc # "none" => _cached_conf = before
        /\ ret.exc = "none" =>
              /\ T \in DOMAIN _cached_conf
              /\ _cached_conf[T] = Conf(ret.value)

C14_Witness ==
    /\ op.name = "conf" /\ op.ssh_config = None
    /\ T \in DOMAIN before /\ before[T] = Conf(EmptyDict)
    /\ launched = <<>>
    /\ ret = Ok(EmptyDict)

(***************************************************************************)
(* C15.  Every call of a public method launches at most one subprocess,    *)
(* whatever is cached.                                                     *)
(***************************************************************************)
\* As claimed: of every method, up too.
C15_AtMostOneSubprocess == Len(launched) <= 1

\* As the code has it: at most one for every method but up; up launches
\* `vagrant up` and, when that exited with 0 and no configuration was
\* cached for the machine, `vagrant ssh-config` after it: two at most.
C15_AtMostOneButUp ==
    /\ op.name # "up" => Len(launched) <= 1
    /\ op.name = "up" =>
          /\ Len(launched) <= 2
          /\ Len(launched) >= 1 =>
                /\ SubSeq(launched[1].command, 1, 2) = <<VAGRANT_PATH, A_up>>
                /\ T # None => launched[1].command[3] = T
                /\ op.args = <<False, None, None, None>> =>
                      launched[1].command
                          = <<VAGRANT_PATH, A_up>>
                                \o (IF T = None THEN <<>> ELSE <<T>>)
          /\ Len(launched) = 2 <=>
                (/\ launched # <<>> /\ launched[1].returncode = 0
                 /\ ~WasCached)
          /\ Len(launched) = 2 => launched[2].command = SshConfigCommand

C15_Witness ==
    /\ op.name = "up"
    /\ Len(launched) = 2
    /\ ret = Ok(None)
    /\ ~cached_get(_cached_conf, T).is_none

(***************************************************************************)
(* C16.  The command line _make_vagrant_command builds is the executable   *)
(* followed by the arguments that are neither None nor the empty string,   *)
(* in their order.                                                         *)
(***************************************************************************)
\* The command line is the executable and then the arguments at the
\* indices `kept`, in their order.
IsExeThen(command, args, kept) ==
    /\ Len(command) = 1 + Cardinality(kept)
    /\ command[1] = VAGRANT_PATH
    /\ \A k \in 1..Cardinality(kept) : command[k + 1] = args[Nth(kept, k)]

\* As claimed: None and the empty string are removed.
C16_NoEmptyNoAbsent ==
    (op.name = "_make_vagrant_command" /\ ret.exc = "none") =>
        IsExeThen(ret.value, op.args,
                  {i \in 1..Len(op.args) :
                      op.args[i] # None /\ op.args[i] # <<>>})

\* As the code has it: None is removed and nothing else; an empty string
\* stays an argument of the command.
C16_OnlyNoneRemoved ==
    (op.name = "_make_vagrant_command" /\ ret.exc = "none") =>
        IsExeThen(ret.value, op.args,
                  {i \in 1..Len(op.args) : op.args[i] # None})

C16_Witness ==
    /\ op.name = "_make_vagrant_command"
    /\ op.args = <<None, <<>>, <<"w">>>>
    /\ ret = Ok(<<VAGRANT_PATH, <<>>, <<"w">>>>)

(***************************************************************************)
(* C17.  Whenever a subprocess of a call exits with a non-zero code the    *)
(* call raises a CalledProcessError with that exit code and the stderr of  *)
(* the subprocess, and launches nothing after it.  (The `vagrant           *)
(* ssh-config` that up runs after a successful `vagrant up` is left aside  *)
(* here: up passes over its failure, as the comment in up says; see C18.)  *)
(***************************************************************************)
\* The launches of the last call that exited with a non-zero code.
FailedLaunches == {i \in 1..Len(launched) : launched[i].returncode # 0}

C17_FailureCarriesStderr ==
    \A i \in FailedLaunches :
        \/ op.name = "up" /\ i = 2
        \/ /\ ret.exc = "CalledProcessError"
           /\ ret.returncode = launched[i].returncode
           /\ ret.stderr = launched[i].stderr
           /\ i = Len(launched)

(***************************************************************************)
(* C18.  No error of a subprocess or of a parser inside a call is          *)
(* swallowed: a call in which a subprocess exits with a non-zero code, or  *)
(* a parser raises on the output read, raises that error.                  *)
(***************************************************************************)
\* The methods that read the configuration through conf.
ConfReaders ==
    {"up", "conf", "user", "hostname", "port", "keyfile", "user_hostname",
     "user_hostname_port"}

\* What the parser the last call hands the output of its launch i to makes
\* of it; Ok when the call parses no output.
ParseOfLaunch(i) ==
    IF op.name \in ConfReaders /\ launched[i].command = SshConfigCommand
    THEN _parse_config(launched[i].stdout)
    ELSE IF op.name = "status" THEN _parse_status(launched[i].stdout)
    ELSE IF op.name = "box_list" THEN _parse_box_list(launched[i].stdout)
    ELSE IF op.name = "plugin_list"
    THEN _parse_plugin_list(launched[i].stdout)
    ELSE IF op.name = "version" THEN version_of(launched[i].stdout)
    ELSE IF op.name = "snapshot_pop" THEN popped(launched[i].stdout)
    ELSE IF op.name = "sandbox_status"
    THEN _parse_vagrant_sandbox_status(launched[i].stdout)
    ELSE Ok(<<>>)

\* The launches whose output the parser raises on.
UnparsedLaunches ==
    {i \in 1..Len(launched) :
        launched[i].returncode = 0 /\ ParseOfLaunch(i).exc # "none"}

\* As claimed.
C18_NothingSwallowed ==
    /\ FailedLaunches # {} => ret.exc = "CalledProcessError"
    /\ \A i \in UnparsedLaunches : ret = ParseOfLaunch(i)
    /\ (op.name = "conf" /\ op.ssh_config # None) =>
          (_parse_config(op.ssh_config).exc # "none" =>
              ret = _parse_config(op.ssh_config))

\* As the code has it: up passes over the CalledProcessError of the
\* `vagrant ssh-config` it runs after `vagrant up` and returns None; every
\* other error, the parser's on the output of that command too, is raised.
C18_OnlyUpConfSwallowed ==
    /\ FailedLaunches # {} =>
          IF op.name = "up" /\ FailedLaunches = {2}
          THEN ret = Ok(None)
          ELSE ret.exc = "CalledProcessError"
    /\ \A i \in UnparsedLaunches : ret = ParseOfLaunch(i)
    /\ (op.name = "conf" /\ op.ssh_config # None) =>
          (_parse_config(op.ssh_config).exc # "none" =>
              ret = _parse_config(op.ssh_config))

C18_Witness ==
    /\ op.name = "up"
    /\ UnparsedLaunches = {2}
    /\ ret = Raise("ValueError")

(***************************************************************************)
(* C19.  When the executable is not found, a call that needs it raises     *)
(* RuntimeError(VAGRANT_NOT_FOUND_WARNING), launches no subprocess and      *)
(* leaves the cache as it was; that error is raised in no other case, and  *)
(* a non-zero exit never raises a RuntimeError.                            *)
(***************************************************************************)
\* The methods that run a command whatever is cached.
Commands ==
    {"up", "provision", "reload", "suspend", "resume", "halt", "destroy",
     "status", "ssh_config", "box_list", "plugin_list", "version", "init",
     "box_add", "snapshot_push", "snapshot_pop", "snapshot_save",
     "snapshot_restore", "snapshot_list", "snapshot_delete", "box_update",
     "box_remove", "sandbox_commit", "sandbox_off", "sandbox_on",
     "sandbox_rollback", "sandbox_status", "_make_vagrant_command"}

\* The last call needed the executable.
NeedsExe ==
    \/ op.name \in Commands
    \/ op.name \in ConfReaders /\ op.ssh_config = None /\ ~WasCached

\* The error of an executable that is not found.
NotFound == RaiseWith("RuntimeError", VAGRANT_NOT_FOUND_WARNING)

C19_NotFoundRaisedFirst ==
    /\ (~on_path /\ NeedsExe) =>
          /\ ret = NotFound
          /\ launched = <<>>
          /\ _cached_conf = before
    /\ ret = NotFound => (~on_path /\ NeedsExe /\ launched = <<>>)
    /\ FailedLaunches # {} => ret.exc # "RuntimeError"

C19_Witness ==
    /\ ~on_path
    /\ op.name = "halt"
    /\ WasCached
    /\ ret = NotFound
    /\ launched = <<>>
    /\ _cached_conf = before

\* Another case of C19: a RuntimeError that is not the one of an executable
\* not found, raised after the command has run.
C19_WitnessOtherRuntimeError ==
    /\ on_path
    /\ op.name = "snapshot_pop"
    /\ ret.exc = "RuntimeError"
    /\ ret # NotFound
    /\ Len(launched) = 1

(***************************************************************************)
(* C27.  An up of machine T that returns, nothing being cached for T when  *)
(* it began, has run `vagrant ssh-config` for T after `vagrant up`: when   *)
(* that exited with 0 the cache holds for T the parse of what it printed,  *)
(* and when it exited with a non-zero code up returns None all the same    *)
(* and nothing is cached for T.                                            *)
(***************************************************************************)
\* The cache differs from what it was in the entry of the machine only.
OnlyEntryOfT ==
    /\ DOMAIN _cached_conf = DOMAIN before \cup {T}
    /\ \A k \in DOMAIN before \ {T} : _cached_conf[k] = before[k]

C27_UpCachesConf ==
    (op.name = "up" /\ ret.exc = "none" /\ ~WasCached) =>
        /\ ret = Ok(None)
        /\ Len(launched) = 2
        /\ launched[1].returncode = 0
        /\ launched[2].command = SshConfigCommand
        /\ IF launched[2].returncode = 0
           THEN /\ _parse_config(launched[2].stdout).exc = "none"
                /\ OnlyEntryOfT
                /\ _cached_conf[T]
                      = Conf(_parse_config(launched[2].stdout).value)
           ELSE /\ _cached_conf = before
                /\ cached_get(_cached_conf, T).is_none

C27_Witness ==
    /\ op.name = "up"
    /\ T = <<"w">>
    /\ ret = Ok(None)
    /\ Len(launched) = 2
    /\ launched[2].returncode = 0
    /\ T \notin DOMAIN before
    /\ None \in DOMAIN before
    /\ K_HostName \in DOMAIN _cached_conf[T].conf

\* The other case of C27: `vagrant ssh-config` failed after `vagrant up`.
C27_WitnessFailedFetch ==
    /\ op.name = "up"
    /\ ret = Ok(None)
    /\ Len(launched) = 2
    /\ launched[2].returncode # 0
    /\ T \notin DOMAIN _cached_conf

(***************************************************************************)
(* C28.  halt, suspend, resume and destroy of machine T change the cache   *)
(* in the entry of T only; after such a call without a machine name, conf  *)
(* of a named machine whose configuration was cached before the call       *)
(* returns that configuration and launches nothing.                        *)
(***************************************************************************)
Lifecycle == {"halt", "suspend", "resume", "destroy"}

\* The call about to be made is conf, without ssh_config, of a machine
\* other than the one of the last call, whose configuration was cached
\* when the last call began.
ConfOfAnotherNext ==
    /\ op'.name = "conf"
    /\ op'.ssh_config = None
    /\ op'.vm_name # T
    /\ ~cached_get(before, op'.vm_name).is_none

C28_OnlyTargetEntry ==
    /\ [](op.name \in Lifecycle =>
            IF ret.exc = "none" THEN OnlyEntryOfT ELSE _cached_conf = before)
    /\ [][(op.name \in Lifecycle /\ ConfOfAnotherNext) =>
            /\ ret' = Ok(before[op'.vm_name].conf)
            /\ launched' = <<>>]_vars

C28_Witness ==
    /\ op.name = "halt"
    /\ T = None
    /\ ret = Ok(None)
    /\ <<"w">> \in DOMAIN before
    /\ ~before[<<"w">>].is_none
    /\ _cached_conf[<<"w">>] = before[<<"w">>]
    /\ None \in DOMAIN before
    /\ ~before[None].is_none
    /\ _cached_conf[None].is_none

(***************************************************************************)
(* C29.  reload, provision and status leave the cache as it was; conf of   *)
(* machine T after reload of T, a configuration being cached for T,        *)
(* returns that configuration and launches nothing.                        *)
(***************************************************************************)
CacheReaders == {"reload", "provision", "status"}

C29_CacheUntouched ==
    /\ [](op.name \in CacheReaders => _cached_conf = before)
    /\ [][(/\ op.name = "reload"
           /\ op'.name = "conf" /\ op'.ssh_config = None /\ op'.vm_name = T
           /\ WasCached) =>
            /\ ret' = Ok(before[T].conf)
            /\ launched' = <<>>
            /\ _cached_conf' = before]_vars

C29_Witness ==
    /\ op.name = "reload"
    /\ ret = Ok(None)
    /\ Len(launched) = 1
    /\ WasCached
    /\ K_User \in DOMAIN _cached_conf[T].conf

(***************************************************************************)
(* C30.  A call that raises because a subprocess exited with a non-zero    *)
(* code, because the executable is not found or because the output does    *)
(* not parse leaves the whole cache as it was when the call began.         *)
(***************************************************************************)
\* The last call raised, and not the TypeError of user_hostname and
\* user_hostname_port for a configuration without HostName.
RaisedOnCommandOrParse == ret.exc \notin {"none", "TypeError"}

C30_RaisingLeavesCache == RaisedOnCommandOrParse => _cached_conf = before

C30_Witness ==
    /\ op.name = "destroy"
    /\ ret.exc = "CalledProcessError"
    /\ WasCached
    /\ _cached_conf = before

\* The other cases of C30: conf whose text does not parse, and a call
\* without the executable.
C30_WitnessParse ==
    /\ op.name = "conf"
    /\ ret = Raise("ValueError")
    /\ before # EmptyDict
    /\ _cached_conf = before

(***************************************************************************)
(* C26.  The scan of the output of `vagrant status` in vagrant.py reads    *)
(* the lines between the first blank line after the first line that       *)
(* begins with "Current VM states:" and the blank line after them, never   *)
(* raises, and returns None when there is no such line, the status when    *)
(* the lines name one machine, and the mapping from the names to the       *)
(* statuses when they name several.                                        *)
(***************************************************************************)
ScanLines == byte_splitlines(output)

\* The least element of a non-empty set of numbers.
Least(S) == CHOOSE i \in S : \A j \in S : i <= j

\* The lines that begin with the heading, leading blanks aside.
Headings ==
    {i \in 1..Len(ScanLines) :
        startswith(byte_strip(ScanLines[i]), S_Current_VM_states)}

\* The blank lines after line i.
BlanksAfter(i) ==
    {j \in (i + 1)..Len(ScanLines) : byte_strip(ScanLines[j]) = <<>>}

\* The lines of the block: after the first blank line that follows the
\* first heading, up to the next blank line or the end.
StatusBlock ==
    IF Headings = {} \/ BlanksAfter(Least(Headings)) = {} THEN {}
    ELSE LET b == Least(BlanksAfter(Least(Headings)))
         IN  {i \in (b + 1)..Len(ScanLines) :
                 \A j \in (b + 1)..i : byte_strip(ScanLines[j]) # <<>>}

\* The machine a line of the block names, and its status.
NameAndStatus(i) == byte_split_ws(byte_strip(ScanLines[i]), 1)

BlockNames == {NameAndStatus(i)[1] : i \in StatusBlock}

\* The status on the last line of the block that names the machine.
BlockStatus(name) ==
    LET I == {i \in StatusBlock : NameAndStatus(i)[1] = name}
    IN  NameAndStatus(CHOOSE i \in I : \A j \in I : j <= i)[2]

C26_StatusScanNeverFails ==
    called = "status_scan" =>
        /\ result.exc = "none"
        /\ BlockNames = {} => result = Ok(None)
        /\ Cardinality(BlockNames) = 1 =>
              result = Ok(BlockStatus(CHOOSE n \in BlockNames : TRUE))
        /\ Cardinality(BlockNames) > 1 =>
              result = Ok([n \in BlockNames |-> BlockStatus(n)])

(***************************************************************************)
(* What the properties of VagrantTestCase speak of                         *)
(***************************************************************************)
\* The test case whose method ran last.
Ran == IF stage \in {"tearDownOnce", "crashed"} /\ tests_run > 0
       THEN tests_run ELSE Current

\* Its boxes.
RanBoxes == instances[Ran].vagrant_boxes

\* A run is under way or has ended.
InRun ==
    stage \in {"setUpOnce", "skipped", "setUp", "test", "tearDown",
               "tearDownOnce"}

\* The state of the machine `box` of the Vagrantfile.
StateOf(box) ==
    vms[CHOOSE i \in 1..Len(vms) : vms[i].name = box].state

\* The launches of the run made by the method `name`.
EventsOf(name) == SelectSeq(events, LAMBDA e : e.stage = name)

\* The command of a launch is `vagrant <token> ...`.
IsCommand(e, token) == Len(e.command) >= 2 /\ e.command[2] = token

\* A launch of a restoring command: destroy, halt or suspend.
IsRestoring(e) ==
    \E token \in {A_destroy, A_halt, A_suspend} : IsCommand(e, token)

\* The last method to run was one that calls restore_box_states.
Restored ==
    \/ stage = "tearDown" /\ restart_boxes
    \/ stage = "tearDownOnce" /\ ~restart_boxes

\* The boxes whose recorded state has a cleanup action, in their order.
BoxesToRestore ==
    SelectSeq(RanBoxes,
              LAMBDA box : cleanup_action(__initial_box_statuses[box]) # "")

(***************************************************************************)
(* C21.  With restart_boxes False no restoring command (destroy, halt,     *)
(* suspend) is launched by the test case between one test and the next,    *)
(* and the boxes a test left running are running when the next begins;     *)
(* with restart_boxes True restore_box_states runs in the tearDown of      *)
(* every test.                                                             *)
(***************************************************************************)
C21_NoRestoreBetweenTests ==
    /\ (/\ ~restart_boxes
        /\ stage = "tearDownOnce"
        /\ body.name # "none"
        /\ tests_run < Len(instances)) =>
          /\ EventsOf("tearDown") = <<>>
          /\ EventsOf("tearDownOnce") = <<>>
          /\ body.name \in {"pass", "assertBoxStatus"} =>
                \A i \in 1..Len(RanBoxes) : StateOf(RanBoxes[i]) = RUNNING
    /\ (restart_boxes /\ stage = "tearDown" /\ tc_ret.exc = "none") =>
          /\ Len(EventsOf("tearDown")) = Len(BoxesToRestore)
          /\ \A i \in 1..Len(BoxesToRestore) :
                /\ IsRestoring(EventsOf("tearDown")[i])
                /\ EventsOf("tearDown")[i].command[3] = BoxesToRestore[i]

(***************************************************************************)
(* C22.  When restore_box_states has returned, every box of vagrant_boxes  *)
(* is in the state setUpOnce recorded for it, whatever that state was and  *)
(* whatever the test did to the box.                                       *)
(***************************************************************************)
C22_RestoredToRecorded ==
    (Restored /\ body.name # "none" /\ tc_ret.exc = "none") =>
        \A i \in 1..Len(RanBoxes) :
            StateOf(RanBoxes[i]) = __initial_box_statuses[RanBoxes[i]]

(***************************************************************************)
(* C23.  In a run, the states of the boxes are recorded before any up is   *)
(* launched; before the test method runs, up has been launched for every   *)
(* box of vagrant_boxes, in their order, and for no other machine; and the *)
(* test case launches restoring commands only from tearDown, which runs    *)
(* after the test method, and from tearDownOnce, which runs last.  As      *)
(* claimed, nothing at all is launched by tearDown or tearDownOnce in a    *)
(* run whose test method has not run; the code has tearDownOnce restore    *)
(* in such a run too (a skipped test, a setUp that raised).                *)
(***************************************************************************)
\* The place of a method in a run.
StageRank(name) ==
    IF name = "setUpOnce" THEN 1
    ELSE IF name = "setUp" THEN 2
    ELSE IF name = "test" THEN 3
    ELSE IF name = "tearDown" THEN 4
    ELSE 5

\* The launches of `vagrant up` by setUp.
UpsOfSetUp == SelectSeq(EventsOf("setUp"), LAMBDA e : IsCommand(e, A_up))

\* Recording comes first, then the ups of the listed boxes, then the test
\* method, and no restoring command is launched by setUpOnce or setUp.
RecordUpTest ==
    /\ \A i, j \in 1..Len(events) :
          i < j => StageRank(events[i].stage) <= StageRank(events[j].stage)
    /\ Len(EventsOf("setUpOnce")) = Len(RanBoxes)
    /\ \A i \in 1..Len(EventsOf("setUpOnce")) :
          IsCommand(EventsOf("setUpOnce")[i], A_status)
    /\ stage = "setUpOnce" =>
          \A i \in 1..Len(RanBoxes) :
              __initial_box_statuses[RanBoxes[i]] = StateOf(RanBoxes[i])
    /\ Len(UpsOfSetUp) <= Len(RanBoxes)
    /\ \A i \in 1..Len(UpsOfSetUp) :
          UpsOfSetUp[i].command = <<VAGRANT_PATH, A_up, RanBoxes[i]>>
    /\ body.name # "none" => Len(UpsOfSetUp) = Len(RanBoxes)
    /\ body.name = "none" => EventsOf("test") = <<>>
    /\ \A i \in 1..Len(events) :
          IsRestoring(events[i]) =>
              events[i].stage \in {"test", "tearDown", "tearDownOnce"}

\* As claimed: restoring only after the test method.
C23_RecordUpTestRestore ==
    InRun =>
        /\ RecordUpTest
        /\ \A i \in 1..Len(events) :
              events[i].stage \in {"tearDown", "tearDownOnce"} =>
                  body.name # "none"

\* As the code has it: tearDown restores only after the test method;
\* tearDownOnce restores last, whether or not the test method has run.
C23_RecordUpRestoreLast ==
    InRun =>
        /\ RecordUpTest
        /\ \A i \in 1..Len(events) :
              events[i].stage = "tearDown" => body.name # "none"
        /\ \A i \in 1..Len(events) :
              (events[i].stage = "tearDownOnce" /\ body.name = "none") =>
                  /\ stage = "tearDownOnce"
                  /\ ~restart_boxes
                  /\ IsRestoring(events[i])
                  /\ EventsOf("tearDown") = <<>>

C23_Witness ==
    /\ stage = "tearDownOnce"
    /\ vagrant_boxes = <<>>
    /\ RanBoxes = <<W, B>>
    /\ body.name = "halt"
    /\ Len(UpsOfSetUp) = 2
    /\ Len(EventsOf("tearDownOnce")) = 2

\* The run of a skipped test: nothing started, no test method, and
\* tearDownOnce has launched a restoring command.
C23_WitnessSkipped ==
    /\ stage = "tearDownOnce"
    /\ body.name = "none"
    /\ EventsOf("setUp") = <<>>
    /\ Len(EventsOf("setUpOnce")) = 1
    /\ Len(EventsOf("tearDownOnce")) = 1
    /\ IsRestoring(EventsOf("tearDownOnce")[1])

(***************************************************************************)
(* C24.  assertBoxStatus(box, status) raises the failure exception when    *)
(* the state status() reports for the box differs from `status`, and       *)
(* returns silently only when they are equal.                              *)
(***************************************************************************)
C24_AssertBoxStatusRaises ==
    (stage = "test" /\ body.name = "assertBoxStatus") =>
        IF StateOf(body.box) # body.state
        THEN tc_ret = Raise("AssertionError")
        ELSE tc_ret = Ok(None)

(***************************************************************************)
(* C25.  A test case of a class whose vagrant_boxes is empty or None has,  *)
(* once constructed, the names status() reports as its vagrant_boxes, so   *)
(* that each names a machine of the Vagrantfile.                           *)
(***************************************************************************)
C25_AllBoxesWhenEmpty ==
    (vagrant_boxes = None \/ vagrant_boxes = <<>>) =>
        \A k \in 1..Len(instances) :
            /\ instances[k].vagrant_boxes
                  = [i \in 1..Len(vms) |-> vms[i].name]
            /\ \A i \in 1..Len(instances[k].vagrant_boxes) :
                  instances[k].vagrant_boxes[i] \in Machines(vms)

====
